---- MODULE Spec2Model ----
(***************************************************************************)
(* Model of the configuration parser of zamaldinov28/config, revision      *)
(* src/config.go lines 390-844 (type Parser, Parse(cfgPathConfig,          *)
(* envPrefixConfig)).                                                      *)
(*                                                                         *)
(* Text is modelled as a sequence of one-character strings, so that        *)
(* strings.Split, strings.Join, strings.ToUpper, strings.ToLower,          *)
(* strings.TrimLeft and filepath.Ext are computed and not assumed.         *)
(* A Go map[string]string is a function whose domain is a finite set of    *)
(* such sequences; a nil map reads like the empty map.                     *)
(***************************************************************************)
EXTENDS Integers, Sequences, FiniteSets, TLC

VARIABLES
    inKind,     \* what the caller hands to NewParser: a pointer to a record or not
    decl,       \* the record type behind Parser.in: its fields in declaration order
    pc,         \* "new" before NewParser, then "ready", "failed" or "panic"
    fields,     \* Parser.fields: Go field name -> descriptor
    target,     \* the values of the record Parser.in points to
    envPrefix,  \* Parser.envPrefix
    parsedCfg,  \* Parser.parsedCfg
    parsedCli,  \* Parser.parsedCli
    args,       \* os.Args
    env,        \* the process environment: variable name -> value
    fs,         \* the file system: path -> file
    last,       \* arguments and observations of the latest Parse call
    wKind,      \* coercion harness: kind of the destination field
    wCur,       \* coercion harness: value of the field before the call
    wText,      \* coercion harness: the text handed to writeValueToField
    wRes,       \* coercion harness: result of writeValueToField, or "pending"
    hPrefix,    \* the prefix handed to Help
    hOut        \* the lines of the latest Help call

vars == <<inKind, decl, pc, fields, target, envPrefix, parsedCfg, parsedCli, args, env, fs, last,
          wKind, wCur, wText, wRes, hPrefix, hOut>>

engineVars == <<inKind, decl, pc, fields, target, envPrefix, parsedCfg, parsedCli, args, env, fs, last>>

parserVars == <<envPrefix, parsedCfg, parsedCli>>

worldVars == <<args, env, fs>>

coerceVars == <<wKind, wCur, wText, wRes>>

helpVars == <<hPrefix, hOut>>

(***************************************************************************)
(* Text helpers                                                            *)
(***************************************************************************)
Empty == << >>

EmptyMap == [k \in {} |-> Empty]

MapPut(m, k, v) == [x \in (DOMAIN m) \cup {k} |-> IF x = k THEN v ELSE m[x]]

lowerLetters ==
    <<"a","b","c","d","e","f","g","h","i","j","k","l","m",
      "n","o","p","q","r","s","t","u","v","w","x","y","z">>

upperLetters ==
    <<"A","B","C","D","E","F","G","H","I","J","K","L","M",
      "N","O","P","Q","R","S","T","U","V","W","X","Y","Z">>

upperOf ==
    [c \in {lowerLetters[i] : i \in DOMAIN lowerLetters} |->
        upperLetters[CHOOSE i \in DOMAIN lowerLetters : lowerLetters[i] = c]]

lowerOf ==
    [c \in {upperLetters[i] : i \in DOMAIN upperLetters} |->
        lowerLetters[CHOOSE i \in DOMAIN upperLetters : upperLetters[i] = c]]

digitChars == <<"0","1","2","3","4","5","6","7","8","9">>

UpperChar(c) == IF c \in DOMAIN upperOf THEN upperOf[c] ELSE c

LowerChar(c) == IF c \in DOMAIN lowerOf THEN lowerOf[c] ELSE c

\* strings.ToUpper
ToUpper(s) == [i \in DOMAIN s |-> UpperChar(s[i])]

\* strings.ToLower
ToLower(s) == [i \in DOMAIN s |-> LowerChar(s[i])]

\* strings.Split(s, c) for a one-character separator: never an empty result
RECURSIVE Split(_, _)
Split(s, c) ==
    IF \A i \in DOMAIN s : s[i] # c
    THEN <<s>>
    ELSE LET i == CHOOSE i \in DOMAIN s : s[i] = c /\ \A j \in 1..(i - 1) : s[j] # c
         IN  <<SubSeq(s, 1, i - 1)>> \o Split(SubSeq(s, i + 1, Len(s)), c)

\* strings.Join(parts, c)
RECURSIVE Join(_, _)
Join(parts, c) ==
    IF Len(parts) = 0 THEN Empty
    ELSE IF Len(parts) = 1 THEN parts[1]
    ELSE parts[1] \o <<c>> \o Join(Tail(parts), c)

\* strings.TrimLeft(s, c) for a one-character cutset
RECURSIVE TrimLeft(_, _)
TrimLeft(s, c) ==
    IF Len(s) > 0 /\ s[1] = c THEN TrimLeft(Tail(s), c) ELSE s

\* filepath.Ext: the suffix from the last dot of the last path element
Ext(path) ==
    LET dots == {i \in DOMAIN path :
                    /\ path[i] = "."
                    /\ \A j \in i..Len(path) : path[j] # "/"}
    IN  IF dots = {} THEN Empty
        ELSE LET i == CHOOSE i \in dots : \A j \in dots : j <= i
             IN  SubSeq(path, i, Len(path))

(***************************************************************************)
(* Constants of the program                                                *)
(***************************************************************************)
separator == ";"

separatorInner == ":"

separatorList == ","

tagName == <<"n","a","m","e">>

tagMode == <<"m","o","d","e">>

tagDefault == <<"d","e","f","a","u","l","t">>

tagDesc == <<"d","e","s","c">>

modeCli == 4

modeCfg == 2

modeEnv == 1

modeAll == 7

\* var modes: textual mode -> bit
modes ==
    [k \in {<<"c","l","i">>, <<"c","f","g">>, <<"e","n","v">>} |->
        IF k = <<"c","l","i">> THEN modeCli
        ELSE IF k = <<"c","f","g">> THEN modeCfg ELSE modeEnv]

\* var boolValues
boolValues ==
    [b \in BOOLEAN |->
        IF b THEN << <<"t","r","u","e">>, <<"t">>, <<"y">>, <<"y","e","s">> >>
        ELSE << <<"f","a","l","s","e">>, <<"f">>, <<"n">>, <<"n","o">> >>]

\* mode&bit > 0 for a one-bit mask
HasBit(mode, bit) == (mode \div bit) % 2 = 1

\* mode | bit for a one-bit mask
BitOr(mode, bit) == IF HasBit(mode, bit) THEN mode ELSE mode + bit

(***************************************************************************)
(* newStructField: one record field and its `config` annotation            *)
(***************************************************************************)
NoTags ==
    [name |-> Empty, mode |-> 0, defaultValue |-> Empty,
     hasDefaultValue |-> FALSE, description |-> Empty]

\* the mode list folded with a token that is no key of `modes` passed over
RECURSIVE ModeOfList_SkipUnknown(_, _)
ModeOfList_SkipUnknown(listTmp, acc) ==
    IF Len(listTmp) = 0 THEN [err |-> FALSE, mode |-> acc]
    ELSE IF Head(listTmp) \notin DOMAIN modes
    THEN ModeOfList_SkipUnknown(Tail(listTmp), acc)
    ELSE ModeOfList_SkipUnknown(Tail(listTmp), BitOr(acc, modes[Head(listTmp)]))

\* the `case tagMode` branch: the mode list is folded left to right and the
\* first token that is no key of `modes` ends the construction with an error
RECURSIVE ModeOfList(_, _)
ModeOfList(listTmp, acc) ==
    IF Len(listTmp) = 0 THEN [err |-> FALSE, mode |-> acc]
    ELSE IF Head(listTmp) \notin DOMAIN modes THEN [err |-> TRUE, mode |-> acc]
    ELSE ModeOfList(Tail(listTmp), BitOr(acc, modes[Head(listTmp)]))

\* the directive loop with an empty default taken for no default
ApplyDirective_EmptyIsNoDefault(tags, flag) ==
    LET tmp == Split(flag, separatorInner)
        fieldTagName == tmp[1]
        fieldTagValue == Join(Tail(tmp), separatorInner)
    IN  IF fieldTagName = tagName
        THEN [err |-> FALSE, tags |-> [tags EXCEPT !.name = fieldTagValue]]
        ELSE IF fieldTagName = tagMode
        THEN LET r == ModeOfList(Split(fieldTagValue, separatorList), 0)
             IN  [err |-> r.err, tags |-> [tags EXCEPT !.mode = r.mode]]
        ELSE IF fieldTagName = tagDefault
        THEN [err |-> FALSE,
              tags |-> [tags EXCEPT !.defaultValue = fieldTagValue,
                                    !.hasDefaultValue = (fieldTagValue # Empty)]]
        ELSE IF fieldTagName = tagDesc
        THEN [err |-> FALSE, tags |-> [tags EXCEPT !.description = fieldTagValue]]
        ELSE [err |-> FALSE, tags |-> tags]

\* the body of the loop over the `;`-separated directives
ApplyDirective(tags, flag) ==
    LET tmp == Split(flag, separatorInner)
        fieldTagName == tmp[1]
        fieldTagValue == Join(Tail(tmp), separatorInner)
    IN  IF fieldTagName = tagName
        THEN [err |-> FALSE, tags |-> [tags EXCEPT !.name = fieldTagValue]]
        ELSE IF fieldTagName = tagMode
        THEN LET r == ModeOfList(Split(fieldTagValue, separatorList), 0)
             IN  [err |-> r.err, tags |-> [tags EXCEPT !.mode = r.mode]]
        ELSE IF fieldTagName = tagDefault
        THEN [err |-> FALSE,
              tags |-> [tags EXCEPT !.defaultValue = fieldTagValue,
                                    !.hasDefaultValue = TRUE]]
        ELSE IF fieldTagName = tagDesc
        THEN [err |-> FALSE, tags |-> [tags EXCEPT !.description = fieldTagValue]]
        ELSE [err |-> FALSE, tags |-> tags]

RECURSIVE ApplyDirectives(_, _)
ApplyDirectives(tags, list) ==
    IF Len(list) = 0 THEN [err |-> FALSE, tags |-> tags]
    ELSE LET r == ApplyDirective(tags, Head(list))
         IN  IF r.err THEN r ELSE ApplyDirectives(r.tags, Tail(list))

\* newStructField without the return for a field that has no annotation
newStructField_UntaggedKept(field) ==
    LET r == ApplyDirectives(NoTags, Split(field.Tag, separator))
    IN  [skip |-> FALSE, err |-> r.err,
         sf |-> [name |-> field.Name, tags |-> r.tags]]

\* newStructField: (nil, nil) for a field without annotation, (nil, err) for an
\* unknown mode, the descriptor otherwise
newStructField(field) ==
    IF ~field.hasTag
    THEN [skip |-> TRUE, err |-> FALSE, sf |-> [name |-> field.Name, tags |-> NoTags]]
    ELSE LET r == ApplyDirectives(NoTags, Split(field.Tag, separator))
         IN  [skip |-> FALSE, err |-> r.err,
              sf |-> [name |-> field.Name, tags |-> r.tags]]

\* the loop of NewParser over the fields of the record
RECURSIVE BuildFields(_, _)
BuildFields(fieldList, acc) ==
    IF Len(fieldList) = 0 THEN [err |-> FALSE, fields |-> acc]
    ELSE LET r == newStructField(Head(fieldList))
         IN  IF r.err THEN [err |-> TRUE, fields |-> acc]
             ELSE IF r.skip THEN BuildFields(Tail(fieldList), acc)
             ELSE BuildFields(Tail(fieldList), MapPut(acc, r.sf.name, r.sf))

(***************************************************************************)
(* parseCli                                                                *)
(***************************************************************************)
\* the body of the loop over args; arg[0] of an empty token is an index out
\* of range, which ends the call with a runtime panic
CliStep(st, arg) ==
    IF st.panic THEN st
    ELSE IF Len(arg) = 0 THEN [st EXCEPT !.panic = TRUE]
    ELSE IF arg[1] # "-"
    THEN IF st.pendingName # Empty
         THEN [st EXCEPT !.cli = MapPut(st.cli, st.pendingName, arg),
                         !.pendingName = Empty]
         ELSE st
    ELSE LET st1 == IF st.pendingName # Empty
                    THEN [st EXCEPT !.cli = MapPut(st.cli, st.pendingName, Empty),
                                    !.pendingName = Empty]
                    ELSE st
             tmp == Split(arg, "=")
             name == TrimLeft(tmp[1], "-")
         IN  IF Len(tmp) = 1
             THEN [st1 EXCEPT !.pendingName = name]
             ELSE [st1 EXCEPT !.cli = MapPut(st1.cli, name, Join(Tail(tmp), "="))]

RECURSIVE CliLoop(_, _)
CliLoop(st, argv) ==
    IF Len(argv) = 0 THEN st ELSE CliLoop(CliStep(st, Head(argv)), Tail(argv))

\* parseCli with the word true stored for a flag still pending at the end
parseCli_BareIsTrue(argv) ==
    LET st == CliLoop([cli |-> EmptyMap, pendingName |-> Empty, panic |-> FALSE], argv)
    IN  IF st.panic THEN st
        ELSE IF st.pendingName # Empty
        THEN [st EXCEPT !.cli = MapPut(st.cli, st.pendingName, <<"t","r","u","e">>),
                        !.pendingName = Empty]
        ELSE st

\* parseCli(args): the loop, then the flag still pending at the end
parseCli(argv) ==
    LET st == CliLoop([cli |-> EmptyMap, pendingName |-> Empty, panic |-> FALSE], argv)
    IN  IF st.panic THEN st
        ELSE IF st.pendingName # Empty
        THEN [st EXCEPT !.cli = MapPut(st.cli, st.pendingName, Empty),
                        !.pendingName = Empty]
        ELSE st

(***************************************************************************)
(* parseCfg                                                                *)
(***************************************************************************)
dotJson == <<".","j","s","o","n">>

\* the characters of the model in ascending byte value
byteOrder ==
    <<"-", ".">> \o digitChars \o <<"=">> \o upperLetters \o <<"[", "]", "_">> \o lowerLetters

Rank(c) == CHOOSE i \in DOMAIN byteOrder : byteOrder[i] = c

\* a < b for Go strings
RECURSIVE TextLess(_, _)
TextLess(a, b) ==
    IF Len(a) = 0 THEN Len(b) > 0
    ELSE IF Len(b) = 0 THEN FALSE
    ELSE IF a[1] = b[1] THEN TextLess(Tail(a), Tail(b))
    ELSE Rank(a[1]) < Rank(b[1])

\* the keys of a map in the order fmt prints them
RECURSIVE SortedKeys(_)
SortedKeys(keys) ==
    IF keys = {} THEN << >>
    ELSE LET k == CHOOSE x \in keys : \A o \in keys \ {x} : TextLess(x, o)
         IN  <<k>> \o SortedKeys(keys \ {k})

RECURSIVE StripTrailingZeros(_)
StripTrailingZeros(s) ==
    IF Len(s) > 1 /\ s[Len(s)] = "0" THEN StripTrailingZeros(SubSeq(s, 1, Len(s) - 1)) ELSE s

\* the exponent of the %e form: a sign and two digits at least
ExpText(n) == <<"e", "+", digitChars[(n \div 10) + 1], digitChars[(n % 10) + 1]>>

\* fmt's %v of a float64 that holds a non-negative integer, given by its
\* decimal digits: strconv's 'g' format with the shortest digits, which turns
\* to the exponent form from the exponent 6 on
FormatFloat(digits) ==
    IF Len(digits) - 1 < 6 THEN digits
    ELSE LET sig == StripTrailingZeros(digits)
         IN  <<sig[1]>>
             \o (IF Len(sig) > 1 THEN <<".">> \o Tail(sig) ELSE Empty)
             \o ExpText(Len(digits) - 1)

\* fmt.Sprint of a decoded JSON value: a string, a bool, a float64, a
\* map[string]interface{} or nil
RECURSIVE Sprint(_)
Sprint(v) ==
    IF v.t = "str" THEN v.s
    ELSE IF v.t = "bool"
    THEN (IF v.b THEN <<"t","r","u","e">> ELSE <<"f","a","l","s","e">>)
    ELSE IF v.t = "num" THEN FormatFloat(v.digits)
    ELSE IF v.t = "obj"
    THEN LET sk == SortedKeys(DOMAIN v.m)
         IN  <<"m","a","p","[">>
             \o Join([i \in DOMAIN sk |-> sk[i] \o <<":">> \o Sprint(v.m[sk[i]])], " ")
             \o <<"]">>
    ELSE <<"<","n","i","l",">">>

\* json.Unmarshal(fileContent, &tmp) with tmp a map[string]interface{}: an error
\* for malformed text and for a value that is neither an object nor null; the
\* literal null is accepted and leaves no member
Unmarshal(doc) ==
    IF doc.kind = "object" THEN [err |-> FALSE, tmp |-> doc.members]
    ELSE IF doc.kind = "null" THEN [err |-> FALSE, tmp |-> EmptyMap]
    ELSE [err |-> TRUE, tmp |-> EmptyMap]

\* parseCfg(path) on the file system files: the new Parser.parsedCfg and the error
parseCfg(path, files) ==
    IF path = Empty THEN [cfg |-> EmptyMap, err |-> "none"]
    ELSE IF path \notin DOMAIN files THEN [cfg |-> EmptyMap, err |-> "Cannot find config file"]
    ELSE IF ~files[path].statOk THEN [cfg |-> EmptyMap, err |-> "stat"]
    ELSE IF ~files[path].readable THEN [cfg |-> EmptyMap, err |-> "read"]
    ELSE IF Ext(path) = dotJson
    THEN LET u == Unmarshal(files[path].doc)
         IN  IF u.err THEN [cfg |-> EmptyMap, err |-> "json"]
             ELSE [cfg |-> [k \in DOMAIN u.tmp |-> Sprint(u.tmp[k])], err |-> "none"]
    ELSE [cfg |-> EmptyMap, err |-> "none"]

(***************************************************************************)
(* getConfig                                                               *)
(***************************************************************************)
\* getConfig with the file lookup made after the command-line lookup, so that
\* the file overrides the command line
getConfig_FileLast(p, environ, name, mode) ==
    LET envName == ToUpper(p.envPrefix \o name)
        r0 == [value |-> Empty, find |-> FALSE]
        r1 == IF (0 = mode \/ HasBit(mode, modeEnv)) /\ envName \in DOMAIN environ
              THEN [value |-> environ[envName], find |-> TRUE] ELSE r0
        r2 == IF (0 = mode \/ HasBit(mode, modeCli)) /\ name \in DOMAIN p.parsedCli
              THEN [value |-> p.parsedCli[name], find |-> TRUE] ELSE r1
        r3 == IF (0 = mode \/ HasBit(mode, modeCfg)) /\ name \in DOMAIN p.parsedCfg
              THEN [value |-> p.parsedCfg[name], find |-> TRUE] ELSE r2
    IN  r3

\* getConfig with the command line consulted whatever the mode is
getConfig_CliAlways(p, environ, name, mode) ==
    LET envName == ToUpper(p.envPrefix \o name)
        r0 == [value |-> Empty, find |-> FALSE]
        r1 == IF (0 = mode \/ HasBit(mode, modeEnv)) /\ envName \in DOMAIN environ
              THEN [value |-> environ[envName], find |-> TRUE] ELSE r0
        r2 == IF (0 = mode \/ HasBit(mode, modeCfg)) /\ name \in DOMAIN p.parsedCfg
              THEN [value |-> p.parsedCfg[name], find |-> TRUE] ELSE r1
        r3 == IF name \in DOMAIN p.parsedCli
              THEN [value |-> p.parsedCli[name], find |-> TRUE] ELSE r2
    IN  r3

\* p is the parser state [envPrefix, parsedCfg, parsedCli]; environ is the process
\* environment
getConfig(p, environ, name, mode) ==
    LET envName == ToUpper(p.envPrefix \o name)
        r0 == [value |-> Empty, find |-> FALSE]
        r1 == IF (0 = mode \/ HasBit(mode, modeEnv)) /\ envName \in DOMAIN environ
              THEN [value |-> environ[envName], find |-> TRUE] ELSE r0
        r2 == IF (0 = mode \/ HasBit(mode, modeCfg)) /\ name \in DOMAIN p.parsedCfg
              THEN [value |-> p.parsedCfg[name], find |-> TRUE] ELSE r1
        r3 == IF (0 = mode \/ HasBit(mode, modeCli)) /\ name \in DOMAIN p.parsedCli
              THEN [value |-> p.parsedCli[name], find |-> TRUE] ELSE r2
    IN  r3

(***************************************************************************)
(* strconv.ParseInt / strconv.ParseUint in base 10.                        *)
(* A number is [neg, mag, trunc]: mag is its decimal magnitude without     *)
(* leading zeros, so that 64-bit values are exact; trunc = w > 0 says that  *)
(* only the low w bits of the number were kept by a narrowing store.       *)
(***************************************************************************)
IsDigit(c) == \E i \in DOMAIN digitChars : digitChars[i] = c

DigitValue(c) == (CHOOSE i \in DOMAIN digitChars : digitChars[i] = c) - 1

RECURSIVE StripZeros(_)
StripZeros(s) ==
    IF Len(s) > 1 /\ s[1] = "0" THEN StripZeros(Tail(s)) ELSE s

\* a <= b for magnitudes without leading zeros
MagLeq(a, b) ==
    \/ Len(a) < Len(b)
    \/ /\ Len(a) = Len(b)
       /\ \/ a = b
          \/ \E i \in DOMAIN a :
                /\ \A j \in 1..(i - 1) : a[j] = b[j]
                /\ DigitValue(a[i]) < DigitValue(b[i])

\* 1<<bitSize - 1
MaxUintOf(bitSize) ==
    IF bitSize = 8 THEN <<"2","5","5">>
    ELSE IF bitSize = 16 THEN <<"6","5","5","3","5">>
    ELSE IF bitSize = 32 THEN <<"4","2","9","4","9","6","7","2","9","5">>
    ELSE <<"1","8","4","4","6","7","4","4","0","7","3","7","0","9","5","5","1","6","1","5">>

\* 1<<(bitSize-1) - 1
MaxIntOf(bitSize) ==
    IF bitSize = 8 THEN <<"1","2","7">>
    ELSE IF bitSize = 16 THEN <<"3","2","7","6","7">>
    ELSE IF bitSize = 32 THEN <<"2","1","4","7","4","8","3","6","4","7">>
    ELSE <<"9","2","2","3","3","7","2","0","3","6","8","5","4","7","7","5","8","0","7">>

\* 1<<(bitSize-1), the magnitude of the least signed value
CutoffOf(bitSize) ==
    IF bitSize = 8 THEN <<"1","2","8">>
    ELSE IF bitSize = 16 THEN <<"3","2","7","6","8">>
    ELSE IF bitSize = 32 THEN <<"2","1","4","7","4","8","3","6","4","8">>
    ELSE <<"9","2","2","3","3","7","2","0","3","6","8","5","4","7","7","5","8","0","8">>

Num(neg, mag) == [neg |-> neg /\ mag # <<"0">>, mag |-> mag, trunc |-> 0]

Zero == Num(FALSE, <<"0">>)

\* strconv.ParseUint(s, 10, bitSize): no sign, decimal digits only
ParseUint(s, bitSize) ==
    IF Len(s) = 0 \/ \E i \in DOMAIN s : ~IsDigit(s[i])
    THEN [err |-> "syntax", n |-> Zero]
    ELSE IF ~MagLeq(StripZeros(s), MaxUintOf(bitSize))
    THEN [err |-> "range", n |-> Num(FALSE, MaxUintOf(bitSize))]
    ELSE [err |-> "none", n |-> Num(FALSE, StripZeros(s))]

\* strconv.ParseInt(s, 10, bitSize): an optional sign, then ParseUint
ParseInt(s, bitSize) ==
    IF Len(s) = 0 THEN [err |-> "syntax", n |-> Zero]
    ELSE LET neg == s[1] = "-"
             rest == IF s[1] = "+" \/ s[1] = "-" THEN Tail(s) ELSE s
             u == ParseUint(rest, bitSize)
         IN  IF u.err = "syntax" THEN [err |-> "syntax", n |-> Zero]
             ELSE IF ~neg /\ (u.err = "range" \/ ~MagLeq(u.n.mag, MaxIntOf(bitSize)))
             THEN [err |-> "range", n |-> Num(FALSE, MaxIntOf(bitSize))]
             ELSE IF neg /\ (u.err = "range" \/ ~MagLeq(u.n.mag, CutoffOf(bitSize)))
             THEN [err |-> "range", n |-> Num(TRUE, CutoffOf(bitSize))]
             ELSE [err |-> "none", n |-> Num(neg, u.n.mag)]

(***************************************************************************)
(* writeValueToField                                                       *)
(***************************************************************************)
\* width in bits of the integer kinds; int and uint are 64 bits wide
WidthOf(kind) ==
    IF kind \in {"Int8", "Uint8"} THEN 8
    ELSE IF kind \in {"Int16", "Uint16"} THEN 16
    ELSE IF kind \in {"Int32", "Uint32"} THEN 32
    ELSE 64

\* reflect.Value.SetInt: the int64 is converted to the width of the field
SetInt(kind, n) ==
    IF \/ (~n.neg /\ MagLeq(n.mag, MaxIntOf(WidthOf(kind))))
       \/ (n.neg /\ MagLeq(n.mag, CutoffOf(WidthOf(kind))))
    THEN n ELSE [n EXCEPT !.trunc = WidthOf(kind)]

\* reflect.Value.SetUint: the uint64 is converted to the width of the field
SetUint(kind, n) ==
    IF MagLeq(n.mag, MaxUintOf(WidthOf(kind)))
    THEN n ELSE [n EXCEPT !.trunc = WidthOf(kind)]

\* every case of the switch handing 64 to strconv, as the Int case does
BitSizeOf_Always64(kind) == 64

\* the bitSize argument each case of the switch hands to strconv
BitSizeOf(kind) ==
    IF kind = "Int" THEN 64
    ELSE IF kind = "Int8" THEN 8
    ELSE IF kind = "Int16" THEN 16
    ELSE IF kind = "Int32" THEN 32
    ELSE IF kind = "Int64" THEN 64
    ELSE IF kind = "Uint" THEN 64
    ELSE IF kind = "Uint8" THEN 8
    ELSE IF kind = "Uint16" THEN 16
    ELSE IF kind = "Uint32" THEN 32
    ELSE 64

SignedKinds == {"Int", "Int8", "Int16", "Int32", "Int64"}

UnsignedKinds == {"Uint", "Uint8", "Uint16", "Uint32", "Uint64"}

NamedUnsupported ==
    {"Float32", "Float64", "Complex64", "Complex128", "Array", "Chan", "Map",
     "Slice", "Struct"}

DefaultUnsupported == {"Uintptr", "Func", "Interface", "Pointer", "UnsafePointer"}

\* the Bool case without strings.ToLower
BoolCase_CaseSensitive(cur, value) ==
    LET hits == {b \in BOOLEAN : \E i \in DOMAIN boolValues[b] : boolValues[b][i] = value}
    IN  IF hits = {} THEN cur ELSE CHOOSE b \in hits : TRUE

\* case reflect.Bool: the value is lowercased and looked for in boolValues; a
\* text in neither list leaves the field alone
BoolCase(cur, value) ==
    LET low == ToLower(value)
        hits == {b \in BOOLEAN : \E i \in DOMAIN boolValues[b] : boolValues[b][i] = low}
    IN  IF hits = {} THEN cur ELSE CHOOSE b \in hits : TRUE

\* writeValueToField(field, value): cur is the field's value before the call
writeValueToField(kind, cur, value) ==
    IF kind = "Bool" THEN [err |-> "none", val |-> BoolCase(cur, value)]
    ELSE IF kind \in SignedKinds
    THEN LET r == ParseInt(value, BitSizeOf(kind))
         IN  IF r.err # "none" THEN [err |-> r.err, val |-> cur]
             ELSE [err |-> "none", val |-> SetInt(kind, r.n)]
    ELSE IF kind \in UnsignedKinds
    THEN LET r == ParseUint(value, BitSizeOf(kind))
         IN  IF r.err # "none" THEN [err |-> r.err, val |-> cur]
             ELSE [err |-> "none", val |-> SetUint(kind, r.n)]
    ELSE IF kind = "String" THEN [err |-> "none", val |-> value]
    ELSE IF kind \in NamedUnsupported THEN [err |-> "not supported yet", val |-> cur]
    ELSE [err |-> "is not supported", val |-> cur]

\* the zero value of a field of the given kind
ZeroValue(kind) ==
    IF kind = "Bool" THEN FALSE
    ELSE IF kind \in SignedKinds \cup UnsignedKinds THEN Zero
    ELSE IF kind = "String" THEN Empty
    ELSE "zero"

(***************************************************************************)
(* Parse                                                                   *)
(***************************************************************************)
\* One lookup of the bootstrap loop, as recorded in last.events: which
\* designated key it served, the parser state it was made in, what getConfig
\* returned, and the value that was used ("source", "default" or "none").
BootEvent(which, f, p, got, used, value) ==
    [which |-> which, field |-> f, p |-> p, got |-> got, used |-> used, value |-> value]

\* the bootstrap lookup of the config file with the error of parseCfg dropped
\* when the path is the default of the field
BootCfg_DefaultErrDropped(st, sf, in) ==
    IF in.cfgPathConfig # sf.tags.name THEN st
    ELSE LET got == getConfig(st.p, in.env, sf.tags.name, sf.tags.mode)
         IN  IF got.find
             THEN LET r == parseCfg(got.value, in.fs)
                  IN  [p |-> [st.p EXCEPT !.parsedCfg = r.cfg], err |-> r.err,
                       events |-> Append(st.events,
                           BootEvent("cfg", sf.name, st.p, got, "source", got.value))]
             ELSE IF sf.tags.hasDefaultValue
             THEN LET r == parseCfg(sf.tags.defaultValue, in.fs)
                  IN  [p |-> [st.p EXCEPT !.parsedCfg = r.cfg], err |-> "none",
                       events |-> Append(st.events,
                           BootEvent("cfg", sf.name, st.p, got, "default",
                                     sf.tags.defaultValue))]
             ELSE [st EXCEPT !.events =
                       Append(st.events, BootEvent("cfg", sf.name, st.p, got, "none", Empty))]

\* if cfgPathConfig == field.tags.name { ... }
BootCfg(st, sf, in) ==
    IF in.cfgPathConfig # sf.tags.name THEN st
    ELSE LET got == getConfig(st.p, in.env, sf.tags.name, sf.tags.mode)
         IN  IF got.find
             THEN LET r == parseCfg(got.value, in.fs)
                  IN  [p |-> [st.p EXCEPT !.parsedCfg = r.cfg], err |-> r.err,
                       events |-> Append(st.events,
                           BootEvent("cfg", sf.name, st.p, got, "source", got.value))]
             ELSE IF sf.tags.hasDefaultValue
             THEN LET r == parseCfg(sf.tags.defaultValue, in.fs)
                  IN  [p |-> [st.p EXCEPT !.parsedCfg = r.cfg], err |-> r.err,
                       events |-> Append(st.events,
                           BootEvent("cfg", sf.name, st.p, got, "default",
                                     sf.tags.defaultValue))]
             ELSE [st EXCEPT !.events =
                       Append(st.events, BootEvent("cfg", sf.name, st.p, got, "none", Empty))]

\* if envPrefixConfig == field.tags.name { ... }
BootPrefix(st, sf, in) ==
    IF in.envPrefixConfig # sf.tags.name THEN st
    ELSE LET got == getConfig(st.p, in.env, sf.tags.name, sf.tags.mode)
         IN  IF got.find
             THEN [st EXCEPT !.p.envPrefix = got.value,
                             !.events = Append(st.events,
                                 BootEvent("prefix", sf.name, st.p, got, "source", got.value))]
             ELSE IF sf.tags.hasDefaultValue
             THEN [st EXCEPT !.p.envPrefix = sf.tags.defaultValue,
                             !.events = Append(st.events,
                                 BootEvent("prefix", sf.name, st.p, got, "default",
                                           sf.tags.defaultValue))]
             ELSE [st EXCEPT !.events =
                       Append(st.events, BootEvent("prefix", sf.name, st.p, got, "none", Empty))]

\* for _, field := range p.fields { ... }: order is the order in which this
\* run of the loop visits the map
RECURSIVE BootLoop(_, _, _, _)
BootLoop(st, order, flds, in) ==
    IF Len(order) = 0 THEN st
    ELSE LET st1 == BootCfg(st, flds[Head(order)], in)
         IN  IF st1.err # "none" THEN st1
             ELSE BootLoop(BootPrefix(st1, flds[Head(order)], in), Tail(order), flds, in)

\* the fill loop with an empty value taken for no value
FillStep_EmptyIsUnset(st, field, flds, p, in) ==
    IF field.Name \notin DOMAIN flds THEN st
    ELSE LET tags == flds[field.Name].tags
             got == getConfig(p, in.env, tags.name, tags.mode)
             isSet == got.find /\ got.value # Empty
         IN  IF ~isSet /\ ~tags.hasDefaultValue THEN st
             ELSE LET value == IF isSet THEN got.value ELSE tags.defaultValue
                      w == writeValueToField(field.Kind, st.target[field.Name], value)
                  IN  [target |-> [st.target EXCEPT ![field.Name] = w.val],
                       err |-> w.err,
                       writes |-> Append(st.writes,
                           [field |-> field.Name, value |-> value,
                            fromDefault |-> ~isSet])]

\* the body of the loop over the fields of the record, in declaration order
FillStep(st, field, flds, p, in) ==
    IF field.Name \notin DOMAIN flds THEN st
    ELSE LET tags == flds[field.Name].tags
             got == getConfig(p, in.env, tags.name, tags.mode)
         IN  IF ~got.find /\ ~tags.hasDefaultValue THEN st
             ELSE LET value == IF got.find THEN got.value ELSE tags.defaultValue
                      w == writeValueToField(field.Kind, st.target[field.Name], value)
                  IN  [target |-> [st.target EXCEPT ![field.Name] = w.val],
                       err |-> w.err,
                       writes |-> Append(st.writes,
                           [field |-> field.Name, value |-> value,
                            fromDefault |-> ~got.find])]

\* the fill loop going on after a coercion error, the first error kept
RECURSIVE FillLoop_KeepsGoing(_, _, _, _, _)
FillLoop_KeepsGoing(st, fieldList, flds, p, in) ==
    IF Len(fieldList) = 0 THEN st
    ELSE LET n == FillStep(st, Head(fieldList), flds, p, in)
         IN  FillLoop_KeepsGoing([n EXCEPT !.err = IF st.err # "none" THEN st.err ELSE n.err],
                                 Tail(fieldList), flds, p, in)

\* the loop over the fields of the record: the first coercion error ends it
RECURSIVE FillLoop(_, _, _, _, _)
FillLoop(st, fieldList, flds, p, in) ==
    IF Len(fieldList) = 0 \/ st.err # "none" THEN st
    ELSE FillLoop(FillStep(st, Head(fieldList), flds, p, in), Tail(fieldList), flds, p, in)

\* Parse with the fill loop run although the bootstrap loop failed
ParseCall_FillsAnyway(p0, tgt0, flds, dcl, in, order) ==
    LET c == parseCli(in.args)
    IN  IF c.panic
        THEN [p |-> [p0 EXCEPT !.parsedCli = c.cli], target |-> tgt0, err |-> "panic",
              events |-> << >>, writes |-> << >>]
        ELSE LET b == BootLoop([p |-> [p0 EXCEPT !.parsedCli = c.cli], err |-> "none",
                                events |-> << >>], order, flds, in)
                 f == FillLoop([target |-> tgt0, err |-> "none", writes |-> << >>],
                               dcl, flds, b.p, in)
             IN  [p |-> b.p, target |-> f.target,
                  err |-> IF b.err # "none" THEN b.err ELSE f.err,
                  events |-> b.events, writes |-> f.writes]

\* Parse(cfgPathConfig, envPrefixConfig) on the parser state p0 and the record
\* value tgt0, with os.Args, the environment and the file system given by in
ParseCall(p0, tgt0, flds, dcl, in, order) ==
    LET c == parseCli(in.args)
    IN  IF c.panic
        THEN [p |-> [p0 EXCEPT !.parsedCli = c.cli], target |-> tgt0, err |-> "panic",
              events |-> << >>, writes |-> << >>]
        ELSE LET b == BootLoop([p |-> [p0 EXCEPT !.parsedCli = c.cli], err |-> "none",
                                events |-> << >>], order, flds, in)
             IN  IF b.err # "none"
                 THEN [p |-> b.p, target |-> tgt0, err |-> b.err,
                       events |-> b.events, writes |-> << >>]
                 ELSE LET f == FillLoop([target |-> tgt0, err |-> "none", writes |-> << >>],
                                        dcl, flds, b.p, in)
                      IN  [p |-> b.p, target |-> f.target, err |-> f.err,
                           events |-> b.events, writes |-> f.writes]

(***************************************************************************)
(* The records, argument lists, environments and files of the model        *)
(***************************************************************************)
\* texts of the coercion harness: every text over NumChars up to this length
MaxNumLen == 2

Dir(k, v) == k \o <<separatorInner>> \o v

Tag(dirs) == Join(dirs, separator)

mCli == <<"c","l","i">>

mCfg == <<"c","f","g">>

mEnv == <<"e","n","v">>

pathJson == <<"f">> \o dotJson

pathIni == <<"g",".","i","n","i">>

Field(name, kind, tag) == [Name |-> name, Kind |-> kind, hasTag |-> TRUE, Tag |-> tag]

Untagged(name, kind) == [Name |-> name, Kind |-> kind, hasTag |-> FALSE, Tag |-> Empty]

\* a field whose type is a record with the given fields
Nested(name, tag, members) ==
    [Name |-> name, Kind |-> "Struct", hasTag |-> TRUE, Tag |-> tag, Members |-> members]

kNested == <<"n","e","s","t","e","d">>

kInt == <<"i","n","t">>

kString == <<"s","t","r","i","n","g">>

kBool == <<"b","o","o","l">>

\* the record types a parser is built for: a field naming the config file
\* (key c), a field naming the environment prefix (key p) and a text field
\* (key n), with the modes and defaults the README and the tests use; the last
\* one has a boolean and a small integer between two text fields
StructDecls ==
    { << Field("ConfigFile", "String", Tag(<<Dir(tagName, <<"c">>), Dir(tagMode, mCli)>>)),
         Field("Prefix", "String",
               Tag(<<Dir(tagName, <<"p">>), Dir(tagMode, mCli), Dir(tagDefault, Empty)>>)),
         Untagged("Ignore", "String"),
         Field("Name", "String", Tag(<<Dir(tagName, <<"n">>), Dir(tagDefault, <<"d">>)>>)) >>,
      << Field("ConfigFile", "String", Tag(<<Dir(tagName, <<"c">>)>>)),
         Field("Prefix", "String", Tag(<<Dir(tagName, <<"p">>)>>)),
         Field("Name", "String", Tag(<<Dir(tagName, <<"n">>), Dir(tagMode, mCfg)>>)) >>,
      << Field("ConfigFile", "String",
               Tag(<<Dir(tagName, <<"c">>), Dir(tagMode, mCli), Dir(tagDefault, pathJson)>>)),
         Field("Prefix", "String",
               Tag(<<Dir(tagName, <<"p">>), Dir(tagMode, Join(<<mCli, mEnv>>, separatorList)),
                     Dir(tagDefault, <<"x","_">>)>>)),
         Field("Name", "String",
               Tag(<<Dir(tagName, <<"n">>),
                     Dir(tagMode, Join(<<mCli, mCfg, mEnv>>, separatorList)),
                     Dir(tagDefault, Empty)>>)) >>,
      << Field("ConfigFile", "String",
               Tag(<<Dir(tagName, <<"c">>), Dir(tagMode, Join(<<mCli, mEnv>>, separatorList))>>)),
         Field("Prefix", "String", Tag(<<Dir(tagName, <<"p">>), Dir(tagMode, mEnv)>>)),
         Field("Name", "String",
               Tag(<<Dir(tagName, <<"n">>), Dir(tagMode, mEnv), Dir(tagDefault, Empty)>>)) >>,
      << Field("Help", "Bool", Tag(<<Dir(tagName, <<"h">>), Dir(tagMode, <<"Z","Z","Z">>)>>)) >>,
      << Nested("Nested",
                Tag(<<Dir(tagName, kNested), Dir(tagMode, Join(<<mCli, mEnv>>, separatorList))>>),
                << Field("Int", "Int", Tag(<<Dir(tagName, kInt)>>)),
                   Nested("NestedTwo", Tag(<<Dir(tagMode, mCli)>>),
                          << Field("String", "String", Tag(<<Dir(tagName, kString)>>)),
                             Untagged("Ignore", "String") >>) >>) >>,
      << Nested("Nested",
                Tag(<<Dir(tagName, kNested), Dir(tagMode, Join(<<mCli, mEnv>>, separatorList))>>),
                << Field("Int", "Int", Tag(<<Dir(tagName, kInt)>>)),
                   Nested("Nested", Tag(<<Dir(tagName, kNested), Dir(tagMode, mCfg)>>),
                          << Field("Bool", "Bool", Tag(<<Dir(tagName, kBool)>>)) >>) >>) >>,
      << Field("ConfigFile", "String", Tag(<<Dir(tagMode, mCli)>>)),
         Field("Name", "String", Tag(<<Dir(tagDefault, <<"d">>)>>)) >>,
      << Field("Name", "String", Tag(<<Dir(tagName, <<"n">>)>>)),
         Field("Help", "Bool",
               Tag(<<Dir(tagName, <<"h">>),
                     Dir(tagMode, Join(<<mCli, <<"Z","Z","Z">>, mEnv>>, separatorList))>>)) >>,
      << Field("Name", "String", Tag(<<Dir(tagName, <<"n">>), Dir(tagMode, Empty)>>)) >>,
      << Field("First", "String", Tag(<<Dir(tagName, <<"z">>), Dir(tagDefault, <<"d">>)>>)),
         Field("Help", "Bool",
               Tag(<<Dir(tagName, <<"h">>), Dir(tagDefault, <<"t","r","u","e">>)>>)),
         Field("Age", "Int8",
               Tag(<<Dir(tagName, <<"n">>), Dir(tagDefault, <<"1","0","0","0">>)>>)),
         Field("Last", "String", Tag(<<Dir(tagName, <<"t">>), Dir(tagDefault, <<"e">>)>>)) >> }

\* os.Args
ArgLists ==
    { << <<"/","a">> >>,
      << <<"/","a">>, <<"z">>, <<"-","-","c","=">> \o pathJson, <<"-","-","n","=","1">>,
         <<"-","-","h">> >>,
      << <<"/","a">>, <<"-","c">>, pathIni, <<"-","-","p","=","x","_">>,
         <<"-","-","I","g","n","o","r","e","=","1">> >>,
      << <<"/","a">>, <<"-","-","n","=">>, <<"-","-","p">> >>,
      << <<"/","a">>, <<"-","n">>, Empty >> }

Env(pairs) == [k \in {x[1] : x \in pairs} |-> (CHOOSE x \in pairs : x[1] = k)[2]]

\* the process environment: variable name -> value
Envs ==
    { EmptyMap,
      Env({ << <<"N">>, <<"3">> >>, << <<"n">>, <<"9">> >>, << <<"X","_","N">>, <<"4">> >> }),
      Env({ << <<"C">>, pathJson >>, << <<"P">>, <<"x","_">> >>, << <<"X","_","N">>, Empty >> }) }

Str(s) == [t |-> "str", s |-> s]

\* a JSON number that is a non-negative integer, by its decimal digits
JsonNum(digits) == [t |-> "num", digits |-> digits]

JsonBool(b) == [t |-> "bool", b |-> b]

\* a JSON object inside a document
Obj(members) == [t |-> "obj", m |-> members]

File(statOk, readable, kind, members) ==
    [statOk |-> statOk, readable |-> readable,
     doc |-> [kind |-> kind, members |-> members]]

JsonFiles ==
    { File(TRUE, TRUE, "object", Env({ << <<"n">>, Str(<<"2">>) >> })),
      File(TRUE, TRUE, "object",
           Env({ << <<"n">>, Str(Empty) >>, << <<"p">>, Str(<<"y","_">>) >>,
                 << <<"c">>, Str(pathIni) >> })),
      File(TRUE, TRUE, "object",
           Env({ << <<"a">>, Obj(Env({ << <<"b">>, JsonNum(<<"1">>) >>,
                                       << <<"c">>, Str(<<"x">>) >> })) >>,
                 << <<"n">>, JsonNum(<<"1","0","0","0","0","0","0">>) >>,
                 << <<"z">>, JsonNum(<<"3","0">>) >>,
                 << <<"t">>, JsonBool(TRUE) >> })),
      File(TRUE, TRUE, "malformed", EmptyMap),
      File(TRUE, TRUE, "null", EmptyMap),
      File(TRUE, TRUE, "array", EmptyMap),
      File(TRUE, FALSE, "object", EmptyMap),
      File(FALSE, FALSE, "object", EmptyMap) }

\* the file system: path -> file; a path outside the domain does not exist
FileSystems ==
    { EmptyMap }
    \cup { Env({ <<pathJson, f>>, <<pathIni, File(TRUE, TRUE, "malformed", EmptyMap)>> }) :
           f \in JsonFiles }

\* the arguments of NewParser: a pointer to a record, a record by value, a
\* primitive, the nil interface, a nil pointer to a record, a pointer to an
\* integer
InKinds == {"*struct", "struct", "int", "nil", "(*struct)(nil)", "*int"}

\* the (cfgPathConfig, envPrefixConfig) arguments of Parse
BootKeys == { << <<"c">>, <<"p">> >>, << Empty, <<"p">> >> }

\* the orders in which a range over a map with the given keys can run
Orders(keys) ==
    { o \in [1..Cardinality(keys) -> keys] : \A k \in keys : \E i \in DOMAIN o : o[i] = k }

\* the value of hOut while Help has not been called
NoHelp == [done |-> FALSE, visited |-> << >>, lines |-> << >>]

\* the value of last while no Parse call has been made on the present
\* arguments, environment and files
NoPass(tgt) ==
    [valid |-> FALSE, cfgPathConfig |-> Empty, envPrefixConfig |-> Empty,
     pre |-> [envPrefix |-> Empty, parsedCfg |-> EmptyMap, parsedCli |-> EmptyMap],
     preTarget |-> tgt,
     events |-> << >>, writes |-> << >>, err |-> "none"]

FieldNames(dcl) == {dcl[i].Name : i \in DOMAIN dcl}

KindOf(dcl, name) == dcl[CHOOSE i \in DOMAIN dcl : dcl[i].Name = name].Kind

\* the record the caller hands to NewParser: all fields zero, or with the text
\* field Name already set
InitialTargets(dcl) ==
    LET zero == [n \in FieldNames(dcl) |-> ZeroValue(KindOf(dcl, n))]
    IN  {zero} \cup {[zero EXCEPT ![n] = <<"o">>] : n \in FieldNames(dcl) \cap {"Name"}}

\* a writeValueToField call that has not been made yet
Pending(cur) == [done |-> FALSE, err |-> "none", val |-> cur]

(***************************************************************************)
(* The parser as a state machine: a process started with some arguments    *)
(* calls NewParser and then Parse any number of times; between the calls   *)
(* its environment and the files change.                                   *)
(***************************************************************************)
Init ==
    /\ inKind \in InKinds
    /\ decl \in (IF inKind = "*struct" THEN StructDecls ELSE {<< >>})
    /\ pc = "new"
    /\ fields = EmptyMap
    /\ target \in InitialTargets(decl)
    /\ envPrefix = Empty
    /\ parsedCfg = EmptyMap
    /\ parsedCli = EmptyMap
    /\ args \in ArgLists
    /\ env = EmptyMap
    /\ fs = EmptyMap
    /\ last = NoPass(target)
    /\ wKind = "String"
    /\ wCur = Empty
    /\ wText = Empty
    /\ wRes = Pending(Empty)
    /\ hPrefix = Empty
    /\ hOut = NoHelp

\* NewParser(in): an error for an argument that is no pointer; reflect panics
\* on a nil interface (Type of the zero Value), on a nil pointer (Type of the
\* zero Value that Elem returns) and on a pointer to something that is no
\* record (NumField); a panic ends the program
NewParser ==
    /\ pc = "new"
    /\ IF inKind \in {"nil", "(*struct)(nil)", "*int"}
       THEN pc' = "panic" /\ fields' = EmptyMap
       ELSE IF inKind \in {"struct", "int"}
       THEN pc' = "failed" /\ fields' = EmptyMap
       ELSE \E r \in {BuildFields(decl, EmptyMap)} :
               IF r.err
               THEN pc' = "failed" /\ fields' = EmptyMap
               ELSE pc' = "ready" /\ fields' = r.fields
    /\ UNCHANGED <<inKind, decl, target, last>>
    /\ UNCHANGED parserVars
    /\ UNCHANGED worldVars
    /\ UNCHANGED coerceVars
    /\ UNCHANGED helpVars

\* the environment changes
SetEnv ==
    /\ pc = "ready"
    /\ last.err # "panic"
    /\ \E e \in Envs \ {env} : env' = e
    /\ last' = NoPass(target)
    /\ UNCHANGED <<inKind, decl, pc, fields, target, args, fs>>
    /\ UNCHANGED parserVars
    /\ UNCHANGED coerceVars
    /\ UNCHANGED helpVars

\* the files change
SetFiles ==
    /\ pc = "ready"
    /\ last.err # "panic"
    /\ \E f \in FileSystems \ {fs} : fs' = f
    /\ last' = NoPass(target)
    /\ UNCHANGED <<inKind, decl, pc, fields, target, args, env>>
    /\ UNCHANGED parserVars
    /\ UNCHANGED coerceVars
    /\ UNCHANGED helpVars

\* p.Parse(cfgPathConfig, envPrefixConfig); a panic ends the program
Parse ==
    /\ pc = "ready"
    /\ last.err # "panic"
    /\ \E k \in BootKeys, order \in Orders(DOMAIN fields) :
          \E r \in {ParseCall([envPrefix |-> envPrefix, parsedCfg |-> parsedCfg,
                               parsedCli |-> parsedCli],
                              target, fields, decl,
                              [args |-> args, env |-> env, fs |-> fs,
                               cfgPathConfig |-> k[1], envPrefixConfig |-> k[2]],
                              order)} :
              /\ envPrefix' = r.p.envPrefix
              /\ parsedCfg' = r.p.parsedCfg
              /\ parsedCli' = r.p.parsedCli
              /\ target' = r.target
              /\ last' = [valid |-> TRUE, cfgPathConfig |-> k[1],
                          envPrefixConfig |-> k[2],
                          pre |-> [envPrefix |-> envPrefix, parsedCfg |-> parsedCfg,
                                   parsedCli |-> parsedCli],
                          preTarget |-> target, events |-> r.events,
                          writes |-> r.writes, err |-> r.err]
    /\ UNCHANGED <<inKind, decl, pc, fields>>
    /\ UNCHANGED worldVars
    /\ UNCHANGED coerceVars
    /\ UNCHANGED helpVars

Next == NewParser \/ SetEnv \/ SetFiles \/ Parse

Spec == Init /\ [][Next]_vars

(***************************************************************************)
(* writeValueToField on its own: a field of some kind, holding some value, *)
(* is handed some text.                                                    *)
(***************************************************************************)
Kinds ==
    {"Bool", "String"} \cup SignedKinds \cup UnsignedKinds
    \cup NamedUnsupported \cup DefaultUnsupported

NumChars == {"-", "+", "0", "1", "9", "z"}

\* every text over NumChars of length n or less
RECURSIVE TextsUpTo(_)
TextsUpTo(n) ==
    IF n = 0 THEN {Empty}
    ELSE TextsUpTo(n - 1)
         \cup {<<c>> \o t : c \in NumChars, t \in {u \in TextsUpTo(n - 1) : Len(u) = n - 1}}

\* the least magnitude beyond each unsigned range, 1<<bitSize
PastMaxUintOf(bitSize) ==
    IF bitSize = 8 THEN <<"2","5","6">>
    ELSE IF bitSize = 16 THEN <<"6","5","5","3","6">>
    ELSE IF bitSize = 32 THEN <<"4","2","9","4","9","6","7","2","9","6">>
    ELSE <<"1","8","4","4","6","7","4","4","0","7","3","7","0","9","5","5","1","6","1","6">>

\* the least magnitude beyond each signed range on the negative side
PastCutoffOf(bitSize) ==
    IF bitSize = 8 THEN <<"1","2","9">>
    ELSE IF bitSize = 16 THEN <<"3","2","7","6","9">>
    ELSE IF bitSize = 32 THEN <<"2","1","4","7","4","8","3","6","4","9">>
    ELSE <<"9","2","2","3","3","7","2","0","3","6","8","5","4","7","7","5","8","0","9">>

BitSizes == {8, 16, 32, 64}

\* the texts at the edges of every integer range
EdgeTexts ==
    UNION { { MaxIntOf(b), CutoffOf(b), <<"-">> \o CutoffOf(b), <<"-">> \o PastCutoffOf(b),
              MaxUintOf(b), PastMaxUintOf(b), <<"+">> \o MaxIntOf(b) } : b \in BitSizes }

OddTexts ==
    { <<"1","0","0","0">>, <<"0","0","7">>, <<"-","0","0","7">>, <<"Z","Z","Z">>,
      <<"1","_","0">>, <<"1","e","2">>, <<" ","1">>, <<"0","x","1","0">>, <<"1",".","0">> }

\* every spelling of a word in upper and lower case letters
RECURSIVE CaseVariants(_)
CaseVariants(word) ==
    IF Len(word) = 0 THEN {Empty}
    ELSE {<<c>> \o r : c \in {word[1], UpperChar(word[1])}, r \in CaseVariants(Tail(word))}

BoolTexts ==
    UNION {CaseVariants(boolValues[b][i]) : b \in BOOLEAN, i \in 1..4}
    \cup { <<"o","n">>, <<"o","f","f">>, <<"t","r">>, <<"y","e","s","s">>, <<" ","t">>,
           <<"t","r","u","e"," ">>, <<"n","o","n">>, <<"f","a","l","s">> }

Texts == TextsUpTo(MaxNumLen) \cup EdgeTexts \cup OddTexts \cup BoolTexts

\* the values a field of the given kind can hold before the call
CurValues(kind) ==
    IF kind = "Bool" THEN BOOLEAN
    ELSE IF kind \in SignedKinds \cup UnsignedKinds THEN {Zero, Num(FALSE, <<"5">>)}
    ELSE IF kind = "String" THEN {Empty, <<"o">>}
    ELSE {"zero"}

InitCoerce ==
    /\ inKind = "*struct"
    /\ decl = << >>
    /\ pc = "new"
    /\ fields = EmptyMap
    /\ target = EmptyMap
    /\ envPrefix = Empty
    /\ parsedCfg = EmptyMap
    /\ parsedCli = EmptyMap
    /\ args = << >>
    /\ env = EmptyMap
    /\ fs = EmptyMap
    /\ last = NoPass(EmptyMap)
    /\ wKind \in Kinds
    /\ wText \in Texts
    /\ wCur \in CurValues(wKind)
    /\ wRes = Pending(wCur)
    /\ hPrefix = Empty
    /\ hOut = NoHelp

\* p.writeValueToField(field, value)
Coerce ==
    /\ ~wRes.done
    /\ \E r \in {writeValueToField(wKind, wCur, wText)} :
          wRes' = [done |-> TRUE, err |-> r.err, val |-> r.val]
    /\ UNCHANGED <<wKind, wCur, wText>>
    /\ UNCHANGED engineVars
    /\ UNCHANGED helpVars

NextCoerce == Coerce

SpecCoerce == InitCoerce /\ [][NextCoerce]_vars

(***************************************************************************)
(* Properties                                                              *)
(***************************************************************************)
\* the parser state getConfig reads
P == [envPrefix |-> envPrefix, parsedCfg |-> parsedCfg, parsedCli |-> parsedCli]

\* the keys looked up in the properties: the keys of the fields and one no
\* source holds
Keys == {<<"c">>, <<"p">>, <<"n">>, <<"z">>}

\* the allowed-mode sets that make a source eligible: zero means all
CliEligible == {0, 4, 5, 6, 7}

CfgEligible == {0, 2, 3, 6, 7}

EnvEligible == {0, 1, 3, 5, 7}

Found(v) == [value |-> v, find |-> TRUE]

NotFound == [value |-> Empty, find |-> FALSE]

\* C1: for every key and every allowed-mode set getConfig returns the value of
\* the command line when the command line is eligible and holds the key,
\* otherwise the value of the file when the file is eligible and holds the key,
\* otherwise the value of the environment variable uppercase(prefix+key) when
\* the environment is eligible and the variable is set, otherwise ("", false).
C1_Precedence ==
    pc = "ready" =>
        \A name \in Keys, mode \in 0..7 :
            getConfig(P, env, name, mode) =
                IF mode \in CliEligible /\ name \in DOMAIN parsedCli
                THEN Found(parsedCli[name])
                ELSE IF mode \in CfgEligible /\ name \in DOMAIN parsedCfg
                THEN Found(parsedCfg[name])
                ELSE IF mode \in EnvEligible /\ ToUpper(envPrefix \o name) \in DOMAIN env
                THEN Found(env[ToUpper(envPrefix \o name)])
                ELSE NotFound

\* a state in which the three sources hold the key n with three different
\* values and the unrestricted lookup returns the value of the command line
C1_Witness ==
    /\ pc = "ready"
    /\ <<"n">> \in DOMAIN parsedCli
    /\ <<"n">> \in DOMAIN parsedCfg
    /\ ToUpper(envPrefix \o <<"n">>) \in DOMAIN env
    /\ parsedCli[<<"n">>] # parsedCfg[<<"n">>]
    /\ parsedCfg[<<"n">>] # env[ToUpper(envPrefix \o <<"n">>)]
    /\ parsedCli[<<"n">>] # env[ToUpper(envPrefix \o <<"n">>)]
    /\ getConfig(P, env, <<"n">>, 0) = Found(parsedCli[<<"n">>])

\* the contents a source is replaced with to see whether a lookup reads it
Replaced(name) == {EmptyMap, [k \in {name} |-> <<"!">>], [k \in {ToUpper(envPrefix \o name)} |-> <<"!">>]}

\* C2: a source outside a non-zero allowed-mode set never supplies or changes
\* the result of getConfig, whatever it holds; an eligible source that holds
\* the key makes the lookup succeed; and the allowed-mode set zero gives the
\* result of the explicit set {cli, cfg, env}.
C2_ModeRestriction ==
    pc = "ready" =>
        \A name \in Keys, mode \in 0..7 :
            \E got \in {getConfig(P, env, name, mode)} :
                /\ mode \notin CliEligible =>
                      \A m \in Replaced(name) :
                          getConfig([P EXCEPT !.parsedCli = m], env, name, mode) = got
                /\ mode \notin CfgEligible =>
                      \A m \in Replaced(name) :
                          getConfig([P EXCEPT !.parsedCfg = m], env, name, mode) = got
                /\ mode \notin EnvEligible =>
                      \A m \in Replaced(name) : getConfig(P, m, name, mode) = got
                /\ \/ mode \in CliEligible /\ name \in DOMAIN parsedCli
                   \/ mode \in CfgEligible /\ name \in DOMAIN parsedCfg
                   \/ mode \in EnvEligible /\ ToUpper(envPrefix \o name) \in DOMAIN env
                   => got.find
                /\ mode = 0 => got = getConfig(P, env, name, modeAll)

\* a state in which the command line and the environment hold the key n and a
\* lookup restricted to the file returns the value of the file
C2_Witness ==
    /\ pc = "ready"
    /\ <<"n">> \in DOMAIN parsedCli
    /\ <<"n">> \in DOMAIN parsedCfg
    /\ ToUpper(envPrefix \o <<"n">>) \in DOMAIN env
    /\ parsedCli[<<"n">>] # parsedCfg[<<"n">>]
    /\ getConfig(P, env, <<"n">>, modeCfg) = Found(parsedCfg[<<"n">>])
    /\ getConfig(P, env, <<"n">>, modeCli) = Found(parsedCli[<<"n">>])

\* the errors of the file stage of Parse
FileErrs == {"Cannot find config file", "stat", "read", "json"}

\* the latest Parse call got past the bootstrap loop
Resolved == last.valid /\ last.err \notin FileErrs \cup {"panic"}

IndexOf(name) == CHOOSE i \in DOMAIN decl : decl[i].Name = name

\* the field was reached by the fill loop of the latest Parse call: the loop
\* stops at the first field whose coercion fails
Processed(name) ==
    \/ last.err = "none"
    \/ /\ Len(last.writes) > 0
       /\ IndexOf(name) <= IndexOf(last.writes[Len(last.writes)].field)

\* an eligible source holds the key
Held(name, mode) ==
    \/ mode \in CliEligible /\ name \in DOMAIN parsedCli
    \/ mode \in CfgEligible /\ name \in DOMAIN parsedCfg
    \/ mode \in EnvEligible /\ ToUpper(envPrefix \o name) \in DOMAIN env

\* the value of the first eligible source that holds the key, in the order
\* command line, file, environment
HeldValue(name, mode) ==
    IF mode \in CliEligible /\ name \in DOMAIN parsedCli THEN parsedCli[name]
    ELSE IF mode \in CfgEligible /\ name \in DOMAIN parsedCfg THEN parsedCfg[name]
    ELSE env[ToUpper(envPrefix \o name)]

WritesOf(name) == {i \in DOMAIN last.writes : last.writes[i].field = name}

\* C3: in the general resolution phase of Parse the default of a field is
\* written iff no eligible source holds the key of the field; a key that is
\* present with an empty value counts as found and the default is ignored; a
\* field with no value and no default is not written and keeps its prior value.
C3_DefaultIffNotHeld ==
    Resolved =>
        \A f \in DOMAIN fields :
            Processed(f) =>
                LET tags == fields[f].tags
                    held == Held(tags.name, tags.mode)
                IN  /\ (\E i \in WritesOf(f) : last.writes[i].fromDefault)
                           <=> (~held /\ tags.hasDefaultValue)
                    /\ held =>
                          /\ \A i \in WritesOf(f) :
                                last.writes[i].value = HeldValue(tags.name, tags.mode)
                          /\ WritesOf(f) # {}
                          /\ KindOf(decl, f) = "String" =>
                                target[f] = HeldValue(tags.name, tags.mode)
                    /\ (~held /\ tags.hasDefaultValue /\ KindOf(decl, f) = "String") =>
                          target[f] = tags.defaultValue
                    /\ (~held /\ ~tags.hasDefaultValue) =>
                          WritesOf(f) = {} /\ target[f] = last.preTarget[f]

\* a pass in which a field with a non-empty default finds its key with an empty
\* value in an eligible source, and is set to the empty text
C3_Witness ==
    /\ Resolved
    /\ last.err = "none"
    /\ \E f \in DOMAIN fields :
          /\ fields[f].tags.hasDefaultValue
          /\ fields[f].tags.defaultValue # Empty
          /\ Held(fields[f].tags.name, fields[f].tags.mode)
          /\ HeldValue(fields[f].tags.name, fields[f].tags.mode) = Empty
          /\ target[f] = Empty
    /\ \E g \in DOMAIN fields :
          /\ ~fields[g].tags.hasDefaultValue
          /\ ~Held(fields[g].tags.name, fields[g].tags.mode)

\* the annotation holds the directive `default:` with nothing after the colon
HasEmptyDefault(tag) ==
    \E i \in DOMAIN tag :
        /\ i + 7 <= Len(tag)
        /\ SubSeq(tag, i, i + 7) = <<"d","e","f","a","u","l","t",":">>
        /\ (i = 1 \/ tag[i - 1] = ";")
        /\ (i + 7 = Len(tag) \/ tag[i + 8] = ";")

\* the annotation holds no `default` directive at all
HasNoDefault(tag) ==
    \A i \in DOMAIN tag :
        ~ /\ i + 6 <= Len(tag)
          /\ SubSeq(tag, i, i + 6) = <<"d","e","f","a","u","l","t">>
          /\ (i = 1 \/ tag[i - 1] = ";")

\* C4: a field annotated with `default:` has hasDefaultValue = true and the
\* empty text as default, while a field without default directive has
\* hasDefaultValue = false; and when no eligible source holds the key of a text
\* field with the empty default, Parse sets the field to the empty text,
\* whatever it held before.
C4_EmptyDefault ==
    pc = "ready" =>
        \A i \in DOMAIN decl :
            decl[i].hasTag =>
                LET f == decl[i].Name
                    tags == fields[f].tags
                IN  /\ HasNoDefault(decl[i].Tag) => ~tags.hasDefaultValue
                    /\ HasEmptyDefault(decl[i].Tag) =>
                          /\ tags.hasDefaultValue
                          /\ tags.defaultValue = Empty
                          /\ (Resolved /\ Processed(f) /\ decl[i].Kind = "String"
                                /\ ~Held(tags.name, tags.mode)) => target[f] = Empty

\* a pass that finds no value for a text field annotated with `default:` and
\* replaces the non-empty text the field held by the empty text
C4_Witness ==
    /\ Resolved
    /\ last.err = "none"
    /\ \E i \in DOMAIN decl :
          /\ decl[i].hasTag
          /\ HasEmptyDefault(decl[i].Tag)
          /\ decl[i].Kind = "String"
          /\ ~Held(fields[decl[i].Name].tags.name, fields[decl[i].Name].tags.mode)
          /\ last.preTarget[decl[i].Name] # Empty
          /\ target[decl[i].Name] = Empty

\* the lookups the bootstrap loop of the latest Parse call made for the
\* designated key `which` ("cfg" or "prefix")
EventsOf(which) == {i \in DOMAIN last.events : last.events[i].which = which}

\* what a lookup in the command line and the environment alone returns, in the
\* parser state p
CliEnvOnly(p, name, mode) ==
    IF mode \in CliEligible /\ name \in DOMAIN p.parsedCli
    THEN Found(p.parsedCli[name])
    ELSE IF mode \in EnvEligible /\ ToUpper(p.envPrefix \o name) \in DOMAIN env
    THEN Found(env[ToUpper(p.envPrefix \o name)])
    ELSE NotFound

\* C5: in every Parse pass the two bootstrap fields are resolved against the
\* command line and the environment only: no entry of a file map, built earlier
\* in the same pass or left from a previous pass, supplies the config-file path
\* or the prefix, whatever the mode of the bootstrap field is.
C5_BootstrapIgnoresFile ==
    last.valid =>
        \A i \in DOMAIN last.events :
            LET e == last.events[i]
                tags == fields[e.field].tags
            IN  e.got = CliEnvOnly(e.p, tags.name, tags.mode)

\* C6: the command-line map, the file map and the active prefix of a pass are
\* built from the inputs of that pass only: after a pass in which the
\* config-file path resolved to nothing the file map is empty, and after a pass
\* in which the prefix resolved to nothing the prefix is empty, whatever an
\* earlier pass loaded.
C6_NothingCarriedOver ==
    (last.valid /\ last.err # "panic") =>
        /\ parsedCli = parseCli(args).cli
        /\ (\A i \in EventsOf("cfg") : last.events[i].used = "none")
              => parsedCfg = EmptyMap
        /\ (\A i \in EventsOf("prefix") : last.events[i].used = "none")
              => envPrefix = Empty

\* the path names no file that parseCfg can load: the file is missing, cannot
\* be read, or has the extension .json and holds no well-formed JSON object
NoJsonObject(path) ==
    \/ path \notin DOMAIN fs
    \/ ~fs[path].statOk
    \/ ~fs[path].readable
    \/ Ext(path) = dotJson /\ fs[path].doc.kind # "object"

\* the path names no file that parseCfg can load: the file is missing, cannot
\* be read, or has the extension .json and holds malformed JSON or a JSON value
\* that is neither an object nor null
NoJsonObjectOrNull(path) ==
    \/ path \notin DOMAIN fs
    \/ ~fs[path].statOk
    \/ ~fs[path].readable
    \/ Ext(path) = dotJson /\ fs[path].doc.kind \notin {"object", "null"}

\* C7 as stated: a non-empty resolved config-file path whose file is missing,
\* unreadable or (for .json) holds no well-formed JSON object makes Parse
\* return an error, whether the path comes from a source or from the default.
C7_Original ==
    last.valid =>
        \A i \in EventsOf("cfg") :
            LET e == last.events[i]
            IN  (e.used # "none" /\ e.value # Empty /\ NoJsonObject(e.value))
                    => last.err \in FileErrs

\* C7 amended: a non-empty resolved config-file path whose file is missing,
\* unreadable or (for .json) holds malformed JSON or a JSON value that is
\* neither an object nor null makes Parse return an error and leaves the file
\* map empty, whether the path comes from a source or from the default; a .json
\* file that holds the literal null is accepted and gives an empty file map.
C7_FileErrorsFatal ==
    last.valid =>
        \A i \in EventsOf("cfg") :
            LET e == last.events[i]
            IN  /\ (e.used # "none" /\ e.value # Empty /\ NoJsonObjectOrNull(e.value))
                      => (last.err \in FileErrs /\ parsedCfg = EmptyMap
                          /\ target = last.preTarget)
                /\ (e.used # "none" /\ e.value \in DOMAIN fs /\ fs[e.value].statOk
                      /\ fs[e.value].readable /\ Ext(e.value) = dotJson
                      /\ fs[e.value].doc.kind = "null" /\ i = Len(last.events))
                      => (last.err \notin FileErrs /\ parsedCfg = EmptyMap)

\* a pass that takes the config-file path from the default of the bootstrap
\* field, finds malformed JSON in the file and returns the error
C7_Witness ==
    /\ last.valid
    /\ last.err = "json"
    /\ \E i \in EventsOf("cfg") :
          /\ last.events[i].used = "default"
          /\ last.events[i].value # Empty
          /\ last.events[i].value \in DOMAIN fs
          /\ fs[last.events[i].value].doc.kind = "malformed"

\* C8: the file source contributes no value and raises no error when the
\* config-file path is empty (never set and no default) or names a readable
\* file whose extension is not .json: every file-map lookup misses and the pass
\* continues.
C8_NoFileNoValue ==
    (last.valid /\ last.err # "panic") =>
        \A i \in EventsOf("cfg") :
            LET e == last.events[i]
            IN  (\/ e.used = "none"
                 \/ e.value = Empty
                 \/ /\ e.value \in DOMAIN fs
                    /\ fs[e.value].statOk
                    /\ fs[e.value].readable
                    /\ Ext(e.value) # dotJson)
                => (last.err \notin FileErrs /\ parsedCfg = EmptyMap)

\* the integer kinds with a declared width
SizedKinds ==
    {"Int8", "Int16", "Int32", "Int64", "Uint8", "Uint16", "Uint32", "Uint64"}

\* the declared width of a sized integer kind
DeclaredWidth(kind) ==
    IF kind \in {"Int8", "Uint8"} THEN 8
    ELSE IF kind \in {"Int16", "Uint16"} THEN 16
    ELSE IF kind \in {"Int32", "Uint32"} THEN 32
    ELSE 64

\* the text without the sign a signed kind allows in front of the digits
Digits(kind, text) ==
    IF kind \in SignedKinds /\ Len(text) > 0 /\ text[1] \in {"+", "-"}
    THEN Tail(text) ELSE text

Negative(kind, text) == kind \in SignedKinds /\ Len(text) > 0 /\ text[1] = "-"

\* base-10 text: one or more decimal digits, after an optional sign for the
\* signed kinds
IsBase10(kind, text) ==
    /\ Len(Digits(kind, text)) > 0
    /\ \A i \in DOMAIN Digits(kind, text) : IsDigit(Digits(kind, text)[i])

\* the value of a base-10 text lies in the range of the kind's width
InRange(kind, text) ==
    LET mag == StripZeros(Digits(kind, text))
        w == DeclaredWidth(kind)
    IN  IF kind \in UnsignedKinds THEN MagLeq(mag, MaxUintOf(w))
        ELSE IF Negative(kind, text) THEN MagLeq(mag, CutoffOf(w))
        ELSE MagLeq(mag, MaxIntOf(w))

\* C9: for every signed or unsigned integer field of width 8, 16, 32 or 64,
\* writeValueToField accepts exactly the base-10 texts whose value lies in the
\* range of that width and stores that value; out-of-range or non-numeric text
\* returns an error and leaves the field as it was, and a truncated or wrapped
\* value is never stored.
C9_IntegerCoercion ==
    (wRes.done /\ wKind \in SizedKinds) =>
        IF IsBase10(wKind, wText) /\ InRange(wKind, wText)
        THEN /\ wRes.err = "none"
             /\ wRes.val.mag = StripZeros(Digits(wKind, wText))
             /\ wRes.val.neg = (Negative(wKind, wText) /\ wRes.val.mag # <<"0">>)
             /\ wRes.val.trunc = 0
        ELSE /\ wRes.err = (IF IsBase10(wKind, wText) THEN "range" ELSE "syntax")
             /\ wRes.val = wCur
             /\ wRes.val.trunc = 0

\* the text "1000" handed to a signed 8-bit field: a range error, the field
\* keeps its value
C9_Witness ==
    /\ wRes.done
    /\ wKind = "Int8"
    /\ wText = <<"1","0","0","0">>
    /\ wRes.err = "range"
    /\ wRes.val = wCur

TrueWords == { <<"t","r","u","e">>, <<"t">>, <<"y">>, <<"y","e","s">> }

FalseWords == { <<"f","a","l","s","e">>, <<"f">>, <<"n">>, <<"n","o">> }

\* a and b are the same text when the case of the letters is ignored
EqualFold(a, b) ==
    /\ Len(a) = Len(b)
    /\ \A i \in DOMAIN a : UpperChar(a[i]) = UpperChar(b[i])

\* C10: for a boolean field writeValueToField sets true when the text matches
\* one of true, t, y, yes ignoring case, sets false when it matches one of
\* false, f, n, no ignoring case, and for any other text leaves the field at
\* its current value; it returns no error in every case.
C10_BoolCoercion ==
    (wRes.done /\ wKind = "Bool") =>
        /\ wRes.err = "none"
        /\ wRes.val = (IF \E w \in TrueWords : EqualFold(wText, w) THEN TRUE
                       ELSE IF \E w \in FalseWords : EqualFold(wText, w) THEN FALSE
                       ELSE wCur)

\* the text "YeS" handed to a boolean field that holds false: the field
\* becomes true
C10_Witness ==
    /\ wRes.done
    /\ wKind = "Bool"
    /\ wCur = FALSE
    /\ wText = <<"Y","e","S">>
    /\ wRes.err = "none"
    /\ wRes.val = TRUE

FloatKinds == {"Float32", "Float64", "Complex64", "Complex128"}

\* a text every real and complex number grammar accepts: decimal digits after
\* an optional sign
PlainNumber(text) == IsBase10("Int64", text)

\* C11: for a float32, float64, complex64 or complex128 field
\* writeValueToField accepts well-formed numeric text and returns no error; it
\* returns an error only for malformed text, and never rejects these kinds as
\* unsupported.
C11_FloatsAccepted ==
    (wRes.done /\ wKind \in FloatKinds) =>
        /\ PlainNumber(wText) => wRes.err = "none"
        /\ wRes.err # "not supported yet"

\* the key of a field under an enclosing record with the composed key pk
Compose(pk, k) ==
    IF pk = Empty THEN k ELSE IF k = Empty THEN pk ELSE pk \o <<".">> \o k

\* the dotted path of a field under an enclosing record with the given path
PathOf(parent, name) == IF parent = "" THEN name ELSE parent \o "." \o name

\* what the annotation of a field declares
Declared(f) == newStructField(f).sf.tags

\* the mode of a field under an enclosing record with the effective mode pm
Effective(pm, m) == IF m # 0 THEN m ELSE pm

\* the descriptors the record type dcl calls for: one for every annotated
\* terminal field, at any depth, with its dotted path, its composed key and
\* its effective mode; none for a record-typed field
RECURSIVE Descriptors(_, _, _, _)
Descriptors(dcl, parent, pk, pm) ==
    UNION { LET f == dcl[i]
            IN  IF ~f.hasTag THEN {}
                ELSE IF f.Kind = "Struct"
                THEN Descriptors(f.Members, PathOf(parent, f.Name),
                                 Compose(pk, Declared(f).name),
                                 Effective(pm, Declared(f).mode))
                ELSE {[path |-> PathOf(parent, f.Name),
                       key |-> Compose(pk, Declared(f).name),
                       mode |-> Effective(pm, Declared(f).mode)]}
            : i \in DOMAIN dcl }

\* C12: every terminal field inside nested records has a descriptor whose key
\* is the parent's composed key, a dot and its own key (its own key alone when
\* the parent's key is empty, a record without name passing its parent's key
\* on); record-typed fields get no descriptor, and the tree is keyed by the
\* dotted field path.
C12_NestedKeys ==
    pc = "ready" =>
        /\ \A d \in Descriptors(decl, "", Empty, 0) :
              d.path \in DOMAIN fields /\ fields[d.path].tags.name = d.key
        /\ \A i \in DOMAIN decl : decl[i].Kind = "Struct" => decl[i].Name \notin DOMAIN fields

\* every bit of the mode m is a bit of the mode pm; the mode 0 stands for all
\* three bits
Within(m, pm) ==
    pm = 0 \/ (m # 0 /\ \A b \in {modeCli, modeCfg, modeEnv} : HasBit(m, b) => HasBit(pm, b))

\* some annotated field or record nested in dcl declares a mode bit that its
\* enclosing record, of effective mode pm, lacks
RECURSIVE Widens(_, _)
Widens(dcl, pm) ==
    \E i \in DOMAIN dcl :
        LET f == dcl[i]
        IN  /\ f.hasTag
            /\ ~newStructField(f).err
            /\ \/ Declared(f).mode # 0 /\ ~Within(Declared(f).mode, pm)
               \/ f.Kind = "Struct" /\ Widens(f.Members, Effective(pm, Declared(f).mode))

\* C13: in every descriptor tree construction returns, the effective mode of a
\* nested field is its own declared mode when non-zero and its parent's
\* otherwise, and lies within the parent's effective mode; construction fails
\* whenever a nested field or record declares a mode bit its parent lacks.
C13_ModesNarrowOnly ==
    pc = "ready" =>
        /\ ~Widens(decl, 0)
        /\ \A d \in Descriptors(decl, "", Empty, 0) :
              d.path \in DOMAIN fields /\ fields[d.path].tags.mode = d.mode

\* the file the latest pass handed to the JSON decoder without error: the
\* path of its bootstrap lookup names a readable .json file that holds an object
LoadedObject(i) ==
    /\ last.err \notin FileErrs \cup {"panic"}
    /\ last.events[i].used # "none"
    /\ last.events[i].value \in DOMAIN fs
    /\ fs[last.events[i].value].statOk
    /\ fs[last.events[i].value].readable
    /\ Ext(last.events[i].value) = dotJson
    /\ fs[last.events[i].value].doc.kind = "object"

\* the leaves of a JSON object: every member that is no object, at any depth,
\* with the dot-joined chain of the keys that lead to it
RECURSIVE Leaves(_, _)
Leaves(members, prefix) ==
    UNION { IF members[k].t = "obj"
            THEN Leaves(members[k].m, Compose(prefix, k))
            ELSE {[key |-> Compose(prefix, k), leaf |-> members[k]]}
            : k \in DOMAIN members }

\* C14: for a .json config file every nested object is flattened recursively:
\* the file map holds one entry per leaf that is no object, keyed by the
\* dot-joined chain of object keys, and no entry for an object itself; string
\* leaves are held verbatim.
C14_JsonFlattened ==
    last.valid =>
        \A i \in EventsOf("cfg") :
            LoadedObject(i) =>
                LET leaves == Leaves(fs[last.events[i].value].doc.members, Empty)
                IN  /\ DOMAIN parsedCfg = {l.key : l \in leaves}
                    /\ \A l \in leaves :
                          (l.key \in DOMAIN parsedCfg /\ l.leaf.t = "str")
                              => parsedCfg[l.key] = l.leaf.s

\* the text the file map is to hold for a leaf: the plain decimal digits of an
\* integer, true or false for a boolean, a string as it is
PlainText(leaf) ==
    IF leaf.t = "num" THEN leaf.digits
    ELSE IF leaf.t = "bool"
    THEN (IF leaf.b THEN <<"t","r","u","e">> ELSE <<"f","a","l","s","e">>)
    ELSE leaf.s

\* C15: every integer-valued JSON number leaf is held in the file map as its
\* plain decimal digits, without exponent or fraction, whatever its magnitude;
\* booleans are held as true or false and strings verbatim.
C15_PlainDecimals ==
    last.valid =>
        \A i \in EventsOf("cfg") :
            LoadedObject(i) =>
                \A l \in Leaves(fs[last.events[i].value].doc.members, Empty) :
                    (l.key \in DOMAIN parsedCfg /\ l.leaf.t \in {"num", "bool", "str"})
                        => parsedCfg[l.key] = PlainText(l.leaf)

\* the annotated fields of the record that declare no name
Unnamed == {i \in DOMAIN decl : decl[i].hasTag /\ Declared(decl[i]).name = Empty}

\* C16: a descriptor whose annotation declares no name gets its field path as
\* lookup key and never the empty key: two annotated fields without name never
\* share a key, and none of them matches an empty bootstrap key name passed to
\* Parse.
C16_UnnamedKeyIsPath ==
    pc = "ready" =>
        /\ \A i \in Unnamed :
              decl[i].Name \in DOMAIN fields => fields[decl[i].Name].tags.name # Empty
        /\ \A i, j \in Unnamed :
              (i # j /\ {decl[i].Name, decl[j].Name} \subseteq DOMAIN fields)
                  => fields[decl[i].Name].tags.name # fields[decl[j].Name].tags.name
        /\ (last.valid /\ last.cfgPathConfig = Empty) => EventsOf("cfg") = {}

\* the fields of the record that carry no config annotation
Unannotated == {i \in DOMAIN decl : ~decl[i].hasTag}

\* C17: a field with no config annotation produces no descriptor, and no Parse
\* pass ever writes it, whatever the command line, the file and the
\* environment hold.
C17_UnannotatedUntouched ==
    \A i \in Unannotated :
        /\ decl[i].Name \notin DOMAIN fields
        /\ target[decl[i].Name] = ZeroValue(decl[i].Kind)
        /\ \A w \in DOMAIN last.writes : last.writes[w].field # decl[i].Name

\* a pass that ends without error and writes some field of a record with an
\* unannotated field Ignore, while the command line holds the key Ignore
C17_Witness ==
    /\ last.valid
    /\ last.err = "none"
    /\ last.writes # << >>
    /\ Unannotated # {}
    /\ <<"I","g","n","o","r","e">> \in DOMAIN parsedCli

\* the mode lists an annotation declares: the value of every mode directive,
\* split at the commas
ModeLists(tag) ==
    { Split(Join(Tail(Split(tag[d], separatorInner)), separatorInner), separatorList) :
      d \in { x \in DOMAIN tag : Split(tag[x], separatorInner)[1] = tagMode } }

ModeWords == {mCli, mCfg, mEnv}

\* some annotated field of the record has a mode list with a token that is
\* not cli, cfg or env
UnknownModeToken ==
    \E i \in DOMAIN decl :
        /\ decl[i].hasTag
        /\ \E l \in ModeLists(Split(decl[i].Tag, separator)) :
              \E t \in DOMAIN l : l[t] # Empty /\ l[t] \notin ModeWords

\* C18: NewParser fails whenever the mode list of an annotated field holds a
\* token outside cli, cfg, env: no descriptor tree is returned, no source has
\* been read and no field of the record has been written.
C18_UnknownModeFails ==
    UnknownModeToken =>
        /\ pc \in {"new", "failed"}
        /\ fields = EmptyMap
        /\ target \in InitialTargets(decl)
        /\ parsedCli = EmptyMap /\ parsedCfg = EmptyMap /\ envPrefix = Empty
        /\ ~last.valid

\* NewParser has failed on a record whose second field lists the mode ZZZ
\* between cli and env
C18_Witness ==
    /\ pc = "failed"
    /\ UnknownModeToken
    /\ Len(decl) = 2

\* some annotated field of the record has an empty mode list
EmptyModeList ==
    {i \in DOMAIN decl :
        decl[i].hasTag /\ <<Empty>> \in ModeLists(Split(decl[i].Tag, separator))}

\* C19: an annotation whose mode list is empty is accepted at construction
\* and means no restriction: the descriptor gets the mode zero, as a field
\* that declares no mode.
C19_EmptyModeAccepted ==
    (EmptyModeList # {} /\ ~UnknownModeToken) =>
        /\ pc # "failed"
        /\ pc = "ready" =>
              \A i \in EmptyModeList :
                  decl[i].Name \in DOMAIN fields /\ fields[decl[i].Name].tags.mode = 0

\* C20: NewParser returns an error, and does not crash, for every argument
\* that is not a reference to a record: a record passed by value, a primitive,
\* a nil value, and a pointer to something that is not a record.
C20_NotAPointerToRecord ==
    inKind \in {"struct", "int", "nil", "*int"} =>
        /\ pc \in {"new", "failed"}
        /\ fields = EmptyMap

(***************************************************************************)
(* parseCli on its own: every argument list of up to MaxArgs tokens        *)
(***************************************************************************)
MaxArgs == 3

\* tokens of an argument list: a program path, a path that begins with a
\* dash (a login shell, an exec with a chosen argv[0]), flags with and
\* without a value, a positional word, a bare "--" and the empty string
CliTokens ==
    { <<"/","a">>, <<"-","x">>, <<"-","n">>, <<"-","-","n","=","1">>,
      <<"v">>, <<"-","c","=","a","=","b">>, <<"-","-">>, Empty }

CliArgLists ==
    UNION { [1..n -> CliTokens] : n \in 0..MaxArgs }

InitCli ==
    /\ inKind = "*struct"
    /\ decl = << >>
    /\ pc = "args"
    /\ fields = EmptyMap
    /\ target = EmptyMap
    /\ envPrefix = Empty
    /\ parsedCfg = EmptyMap
    /\ parsedCli = EmptyMap
    /\ args \in CliArgLists
    /\ env = EmptyMap
    /\ fs = EmptyMap
    /\ last = NoPass(EmptyMap)
    /\ wKind = "String"
    /\ wText = Empty
    /\ wCur = Empty
    /\ wRes = Pending(Empty)
    /\ hPrefix = Empty
    /\ hOut = NoHelp

\* p.parseCli(args)
CliParse ==
    /\ pc = "args"
    /\ \E r \in {parseCli(args)} :
          /\ parsedCli' = r.cli
          /\ pc' = IF r.panic THEN "panic" ELSE "parsed"
    /\ UNCHANGED <<inKind, decl, fields, target, envPrefix, parsedCfg, args,
                   env, fs, last>>
    /\ UNCHANGED coerceVars
    /\ UNCHANGED helpVars

NextCli == CliParse

SpecCli == InitCli /\ [][NextCli]_vars

\* the rule of the claim, written from its words
BeginsWithDash(t) == Len(t) > 0 /\ t[1] = "-"

HasEquals(t) == \E i \in 1..Len(t) : t[i] = "="

FirstEquals(t) == CHOOSE i \in 1..Len(t) : t[i] = "=" /\ \A j \in 1..(i - 1) : t[j] # "="

RECURSIVE StripDashes(_)
StripDashes(t) ==
    IF Len(t) > 0 /\ t[1] = "-" THEN StripDashes(Tail(t)) ELSE t

FlagName(t) ==
    StripDashes(IF HasEquals(t) THEN SubSeq(t, 1, FirstEquals(t) - 1) ELSE t)

FlagValue(t) == SubSeq(t, FirstEquals(t) + 1, Len(t))

NoPending == [set |-> FALSE, name |-> Empty]

RECURSIVE Rule(_, _, _)
Rule(toks, acc, pend) ==
    IF toks = << >>
    THEN IF pend.set THEN MapPut(acc, pend.name, Empty) ELSE acc
    ELSE LET t == Head(toks)
         IN  IF ~BeginsWithDash(t)
             THEN Rule(Tail(toks),
                       IF pend.set THEN MapPut(acc, pend.name, t) ELSE acc,
                       NoPending)
             ELSE LET acc1 == IF pend.set THEN MapPut(acc, pend.name, Empty) ELSE acc
                  IN  IF HasEquals(t)
                      THEN Rule(Tail(toks), MapPut(acc1, FlagName(t), FlagValue(t)), NoPending)
                      ELSE Rule(Tail(toks), acc1, [set |-> TRUE, name |-> FlagName(t)])

RuleMap(argv) == IF argv = << >> THEN EmptyMap ELSE Rule(Tail(argv), EmptyMap, NoPending)

\* C21: for every argument list parseCli yields the map of the rule: token 0
\* is ignored whatever it is; of the other tokens, a token beginning with "-"
\* that contains "=" records its name (the text before the first "=", leading
\* dashes stripped) with everything after the first "=", a token beginning
\* with "-" without "=" takes the next token as its value if that token does
\* not begin with "-" and the empty string otherwise, and every other token
\* is ignored.
C21_CliRule ==
    pc # "args" => pc = "parsed" /\ parsedCli = RuleMap(args)

\* C29: parseCli completes without a runtime failure for every argument
\* list, lists that contain an empty-string token included, and leaves a
\* CLI map.
C29_CliNeverFails ==
    pc # "args" => pc = "parsed"

(***************************************************************************)
(* Help                                                                    *)
(***************************************************************************)
\* strings.Join(parts, sep) for a separator of any length
RECURSIVE JoinText(_, _)
JoinText(parts, sep) ==
    IF Len(parts) = 0 THEN Empty
    ELSE IF Len(parts) = 1 THEN parts[1]
    ELSE parts[1] \o sep \o JoinText(Tail(parts), sep)

\* "--" + name + the default hint
LeftPart(tags) ==
    <<"-","-">> \o tags.name
    \o (IF tags.hasDefaultValue THEN <<"[","=">> \o tags.defaultValue \o <<"]">> ELSE Empty)

\* the titles of the allowed modes, in the order the range over `modes`
\* visits them
FieldModes(mode, titles) == SelectSeq(titles, LAMBDA t : HasBit(mode, modes[t]))

\* the description, and the suffix for a mode between 0 and modeAll
RightPart(tags, titles) ==
    IF tags.mode > 0 /\ tags.mode < modeAll /\ Len(FieldModes(tags.mode, titles)) > 0
    THEN tags.description \o <<" ","(">>
         \o JoinText(FieldModes(tags.mode, titles), <<","," ">>)
         \o <<" ","o","n","l","y",")">>
    ELSE tags.description

\* the less function handed to sort.Slice: sort.StringsAreSorted of the pair
HelpLess(a, b) == ~TextLess(b[1], a[1])

\* the inner loop of the insertion sort sort.Slice runs on a short slice
RECURSIVE Sink(_, _)
Sink(data, j) ==
    IF j > 1 /\ HelpLess(data[j], data[j - 1])
    THEN Sink([data EXCEPT ![j] = data[j - 1], ![j - 1] = data[j]], j - 1)
    ELSE data

RECURSIVE InsertionSort(_, _)
InsertionSort(data, i) ==
    IF i > Len(data) THEN data ELSE InsertionSort(Sink(data, i), i + 1)

\* fieldsHelp left in the order of the range over p.fields
SortSlice_Unsorted(data) == data

\* sort.Slice(fieldsHelp, less)
SortSlice(data) == InsertionSort(data, 2)

\* the width of the left column
RECURSIVE LongestParameter(_)
LongestParameter(data) ==
    IF Len(data) = 0 THEN 0
    ELSE LET m == LongestParameter(Tail(data))
         IN  IF Len(Head(data)[1]) > m THEN Len(Head(data)[1]) ELSE m

\* %-*s: the text padded with spaces on the right
PadRight(text, width) ==
    text \o [i \in 1..(IF width > Len(text) THEN width - Len(text) ELSE 0) |-> " "]

\* Help(prefix): `visited` is the order in which the range visits p.fields,
\* `titles` the order in which each range over `modes` visits its keys; the
\* string returned is the concatenation of the texts of the lines
Help(flds, prefix, visited, titles) ==
    LET fieldsHelp == [i \in DOMAIN visited |->
                          <<LeftPart(flds[visited[i]].tags),
                            RightPart(flds[visited[i]].tags, titles[visited[i]])>>]
        width == LongestParameter(fieldsHelp)
        sorted == SortSlice(fieldsHelp)
    IN  [i \in DOMAIN sorted |->
            [left |-> sorted[i][1], right |-> sorted[i][2],
             text |-> prefix \o PadRight(sorted[i][1], width) \o <<" ">>
                      \o sorted[i][2] \o <<"\n">>]]

dSome == <<"S","o","m","e">>

dMore == <<"M","o","r","e">>

\* record types with and without descriptions, after the fields of
\* TestParser_Help and the example of the README
HelpDecls ==
    { << Field("Short", "Bool",
               Tag(<<Dir(tagName, <<"b">>), Dir(tagDefault, <<"1">>), Dir(tagDesc, dSome)>>)),
         Field("Long", "String",
               Tag(<<Dir(tagName, <<"a","f","f">>),
                     Dir(tagMode, Join(<<mCli, mCfg>>, separatorList)), Dir(tagDesc, dMore)>>)),
         Field("Longer", "String",
               Tag(<<Dir(tagName, <<"c","f","f","f">>),
                     Dir(tagMode, Join(<<mCli, mCfg, mEnv>>, separatorList)),
                     Dir(tagDesc, dMore)>>)) >>,
      << Field("F", "String", Tag(<<Dir(tagName, <<"f">>), Dir(tagDefault, <<"1">>)>>)),
         Field("FF", "String", Tag(<<Dir(tagName, <<"f","f">>), Dir(tagDefault, <<"2">>)>>)) >>,
      << Field("First", "String",
               Tag(<<Dir(tagName, <<"a">>), Dir(tagMode, Join(<<mCli, mCfg>>, separatorList)),
                     Dir(tagDefault, <<"r">>)>>)),
         Field("Second", "String",
               Tag(<<Dir(tagName, <<"Z">>), Dir(tagMode, Join(<<mEnv, mCli>>, separatorList)),
                     Dir(tagDefault, <<"r">>), Dir(tagDesc, Empty)>>)),
         Field("Third", "String",
               Tag(<<Dir(tagName, <<"a">>), Dir(tagMode, mEnv), Dir(tagDesc, dSome)>>)) >> }

HelpPrefixes == { Empty, <<" "," ">>, <<"#">> }

InitHelp ==
    /\ inKind = "*struct"
    /\ decl \in StructDecls \cup HelpDecls
    /\ pc = "new"
    /\ fields = EmptyMap
    /\ target \in InitialTargets(decl)
    /\ envPrefix = Empty
    /\ parsedCfg = EmptyMap
    /\ parsedCli = EmptyMap
    /\ args = << >>
    /\ env = EmptyMap
    /\ fs = EmptyMap
    /\ last = NoPass(target)
    /\ wKind = "String"
    /\ wText = Empty
    /\ wCur = Empty
    /\ wRes = Pending(Empty)
    /\ hPrefix \in HelpPrefixes
    /\ hOut = NoHelp

\* p.Help(prefix); the result depends on p.fields and the prefix only, so
\* one call shows every output
HelpCall ==
    /\ pc = "ready"
    /\ ~hOut.done
    /\ \E visited \in Orders(DOMAIN fields),
          titles \in [DOMAIN fields -> Orders(DOMAIN modes)] :
          hOut' = [done |-> TRUE, visited |-> visited,
                   lines |-> Help(fields, hPrefix, visited, titles)]
    /\ UNCHANGED hPrefix
    /\ UNCHANGED engineVars
    /\ UNCHANGED coerceVars

NextHelp == NewParser \/ HelpCall

SpecHelp == InitHelp /\ [][NextHelp]_vars

\* the annotation of a field declares desc, with or without a text
DeclaresDesc(f) ==
    \E i \in DOMAIN decl :
        /\ decl[i].Name = f
        /\ \E j \in DOMAIN Split(decl[i].Tag, separator) :
              Split(Split(decl[i].Tag, separator)[j], separatorInner)[1] = tagDesc

HelpVisible == {f \in DOMAIN fields : DeclaresDesc(f)}

\* C22: Help emits exactly one line for every descriptor whose annotation
\* declares desc, a descriptor with an empty description (`desc:`) included,
\* and no line for a descriptor that never declared desc: the number of
\* lines is the number of help-visible descriptors.
C22_OnlyDescribedListed ==
    hOut.done =>
        /\ Len(hOut.lines) = Cardinality(HelpVisible)
        /\ \A i \in DOMAIN hOut.lines :
              \E f \in HelpVisible : hOut.lines[i].left = LeftPart(fields[f].tags)

\* the suffix of the claim: the allowed sources in the order cli, cfg, env
FixedSuffix(mode) ==
    IF mode = 0 \/ mode = modeAll THEN Empty
    ELSE <<" ","(">>
         \o JoinText(SelectSeq(<<mCli, mCfg, mEnv>>, LAMBDA t : HasBit(mode, modes[t])),
                     <<","," ">>)
         \o <<" ","o","n","l","y",")">>

\* C23: for every descriptor Help appends to the description the suffix
\* " (<names> only)" when the allowed modes are a non-empty strict subset of
\* cli, cfg, env, the names always in the order cli, cfg, env joined by ", ",
\* and nothing when the mode is zero or covers all three; the output is the
\* same on every call.
C23_SuffixFixedOrder ==
    hOut.done =>
        \A i \in DOMAIN hOut.lines :
            \E f \in DOMAIN fields :
                /\ hOut.lines[i].left = LeftPart(fields[f].tags)
                /\ hOut.lines[i].right =
                      fields[f].tags.description \o FixedSuffix(fields[f].tags.mode)

\* a is a prefix of b
StartsWith(b, a) == Len(a) <= Len(b) /\ SubSeq(b, 1, Len(a)) = a

\* C24: the lines of Help's output are in ascending lexicographic order of
\* their left-hand text, whatever the order in which the descriptor map is
\* visited; every line starts with the caller's prefix and ends with a
\* newline.
C24_LinesSorted ==
    hOut.done =>
        /\ \A i \in DOMAIN hOut.lines, j \in DOMAIN hOut.lines :
              i < j => ~TextLess(hOut.lines[j].left, hOut.lines[i].left)
        /\ \A i \in DOMAIN hOut.lines :
              /\ StartsWith(hOut.lines[i].text, hPrefix \o hOut.lines[i].left)
              /\ hOut.lines[i].text[Len(hOut.lines[i].text)] = "\n"
              /\ \A k \in 1..(Len(hOut.lines[i].text) - 1) : hOut.lines[i].text[k] # "\n"

\* Help was called with a prefix on three descriptors or more that the range
\* visited in an order other than the sorted one
C24_Witness ==
    /\ hOut.done
    /\ hPrefix # Empty
    /\ Len(hOut.lines) >= 3
    /\ \E i \in DOMAIN hOut.lines :
          hOut.lines[i].left # LeftPart(fields[hOut.visited[i]].tags)

(***************************************************************************)
(* The order of the steps of one Parse pass                                *)
(***************************************************************************)
\* the inputs of the latest Parse call
PassInput ==
    [args |-> args, env |-> env, fs |-> fs,
     cfgPathConfig |-> last.cfgPathConfig, envPrefixConfig |-> last.envPrefixConfig]

\* C25: within one Parse pass the config-file path is resolved and the file
\* map built before the environment prefix resolved in this pass becomes
\* active: the bootstrap lookup of the path reads the environment under the
\* prefix in force before the pass, and every lookup of the general
\* resolution phase reads it under the prefix resolved in the pass.
C25_PathBeforePrefix ==
    last.valid =>
        /\ \A i \in EventsOf("cfg") : last.events[i].p.envPrefix = last.pre.envPrefix
        /\ \A i \in DOMAIN last.writes :
              ~last.writes[i].fromDefault =>
                  last.writes[i].value =
                      getConfig(P, env, fields[last.writes[i].field].tags.name,
                                fields[last.writes[i].field].tags.mode).value

CoerceErrs == {"syntax", "range", "not supported yet", "is not supported"}

\* C26: when the coercion of a field fails during Parse, Parse returns that
\* single error at once: the fields earlier in declaration order keep the
\* values written in this pass, the failing field and all later fields are
\* not written.
C26_FirstErrorAborts ==
    (last.valid /\ last.err \in CoerceErrs) =>
        /\ Len(last.writes) > 0
        /\ LET n == Len(last.writes)
               bad == last.writes[n].field
           IN  /\ target[bad] = last.preTarget[bad]
               /\ \A f \in FieldNames(decl) :
                     IndexOf(f) > IndexOf(bad) =>
                         target[f] = last.preTarget[f] /\ WritesOf(f) = {}
               /\ \A i \in 1..(n - 1) :
                     LET f == last.writes[i].field
                         w == writeValueToField(KindOf(decl, f), last.preTarget[f],
                                                last.writes[i].value)
                     IN  /\ IndexOf(f) < IndexOf(bad)
                         /\ w.err = "none"
                         /\ target[f] = w.val

\* a pass that wrote a field, then failed on an integer field that is
\* followed by a field with a default
C26_Witness ==
    /\ last.valid
    /\ last.err \in {"syntax", "range"}
    /\ Len(last.writes) >= 2
    /\ target[last.writes[1].field] # last.preTarget[last.writes[1].field]
    /\ \E f \in DOMAIN fields :
          /\ IndexOf(f) > IndexOf(last.writes[Len(last.writes)].field)
          /\ fields[f].tags.hasDefaultValue

DistinctKeys ==
    \A f \in DOMAIN fields, g \in DOMAIN fields :
        f # g => fields[f].tags.name # fields[g].tags.name

\* C27: when no two descriptors share a key, the outcome of Parse (the error,
\* the file map, the active prefix, the values of the record) is the same
\* for every order in which the bootstrap loop visits the descriptor map.
C27_OrderIndependent ==
    (last.valid /\ DistinctKeys) =>
        \A order \in Orders(DOMAIN fields) :
            \E r \in {ParseCall(last.pre, last.preTarget, fields, decl, PassInput, order)} :
                /\ r.err = last.err
                /\ r.p.parsedCfg = parsedCfg
                /\ r.p.envPrefix = envPrefix
                /\ r.target = target

\* C28: when Parse fails because the config file is missing, unreadable or
\* malformed, no field of the record has been written in that pass: the
\* record equals its state before the pass.
C28_FileErrorWritesNothing ==
    (last.valid /\ last.err \in FileErrs) =>
        /\ target = last.preTarget
        /\ last.writes = << >>

\* a pass that failed on a missing file while the fill loop, had it run,
\* would have changed the record
C28_Witness ==
    /\ last.valid
    /\ last.err = "Cannot find config file"
    /\ FillLoop([target |-> target, err |-> "none", writes |-> << >>],
                decl, fields, P, PassInput).target # target

\* the command line holds --k with no value: at its end or before another
\* flag, and no later token sets k again
BareFlag(k) ==
    \E i \in 2..Len(args) :
        /\ args[i] = <<"-","-">> \o k
        /\ i = Len(args) \/ BeginsWithDash(args[i + 1])
        /\ \A j \in (i + 1)..Len(args) :
              ~(BeginsWithDash(args[j]) /\ FlagName(args[j]) = k)

\* C30: a bare command-line flag for a boolean field resolves to the empty
\* string, which is found but matches neither set of boolean words: after
\* Parse the field has its prior value, its default is not applied and the
\* field raises no error.
C30_BareBoolFlag ==
    (last.valid /\ last.err # "panic") =>
        \A f \in DOMAIN fields :
            (/\ KindOf(decl, f) = "Bool"
             /\ fields[f].tags.mode \in CliEligible
             /\ BareFlag(fields[f].tags.name)) =>
                /\ fields[f].tags.name \in DOMAIN parsedCli
                /\ parsedCli[fields[f].tags.name] = Empty
                /\ (Resolved /\ Processed(f)) =>
                      /\ target[f] = last.preTarget[f]
                      /\ WritesOf(f) # {}
                      /\ \A i \in WritesOf(f) :
                            /\ ~last.writes[i].fromDefault
                            /\ last.writes[i].value = Empty
                      /\ last.writes[Len(last.writes)].field = f => last.err = "none"

\* a pass without error over a boolean field that is false, has the default
\* true and a bare flag on the command line
C30_Witness ==
    /\ last.valid
    /\ last.err = "none"
    /\ \E f \in DOMAIN fields :
          /\ KindOf(decl, f) = "Bool"
          /\ BareFlag(fields[f].tags.name)
          /\ fields[f].tags.hasDefaultValue
          /\ fields[f].tags.defaultValue = <<"t","r","u","e">>
          /\ target[f] = FALSE

====
